---------------------------- MODULE Spec2Model ----------------------------
(***************************************************************************)
(* A model of rfs, a user-space filesystem over a block device.            *)
(*                                                                         *)
(* Layers, as in the source:                                               *)
(*   block_io.rs   FakeMemBlockIO: read/write whole blocks by device index *)
(*   block_mgr.rs  BlockMgr: superblock, bitmap, new_block/del_block,      *)
(*                 read_block/write_block                                  *)
(*   inode.rs      Inode: in-memory mirror of one inode block              *)
(*   file_mgr.rs   FileMgr: inode cache, read_file/write_file/truncate_file*)
(*   main.rs       Rfs: directories, link/unlink, rename, open handles     *)
(*                                                                         *)
(* Sizes are scaled down.  A block has BLOCK_SIZE cells; every field of    *)
(* the inode layout (generation, length, the three times, mode, nlink,     *)
(* uid, gid, each block-table slot) occupies one cell, and a cell holds a  *)
(* natural number; cell i of a block b is b[i + 1], blocks being tuples.   *)
(* The bitmap block has BITMAP_LEN bytes of BYTE_BITS                      *)
(* bits.  A directory entry has DIR_ITEM_SIZE cells.  Device block d is    *)
(* blocks[d + 1].  Names and symlink targets are tuples of byte cells:     *)
(* cells below 128 are ASCII, U+FFFD takes two cells, any other cell is a  *)
(* byte that is not UTF-8.                                                 *)
(*                                                                         *)
(* Every operation of the program is a function from a program state (a    *)
(* record st) to a result record [st, err, val]; handlers are compositions *)
(* of these and each action of the model runs one whole handler.  A        *)
(* failed assertion or slice-out-of-range sets st.panic: the process is    *)
(* gone and no further action is enabled.                                  *)
(***************************************************************************)
EXTENDS Integers, Sequences, FiniteSets, TLC

\* ------------------------------------------------------------------------
\* Program constants (scaled)
\* ------------------------------------------------------------------------
BLOCK_SIZE == 15
BITMAP_LEN == 3
BYTE_BITS == 4
NBITS == BITMAP_LEN * BYTE_BITS
NDEV == NBITS + 2

MAGIC == <<114, 102, 115, 46>>

\* ------------------------------------------------------------------------
\* Bounds of the model
\* ------------------------------------------------------------------------
HEAP_SIZE == 5
MaxOps == 3
MaxFsOps == 4

VARIABLES
    blocks,        \* FakeMemBlockIO.blocks: device index -> block
    bitmap_block,  \* BlockMgr.bitmap_block: in-memory mirror of device block 1
    heap,          \* the Inode objects alive in memory, by address
    inode_table,   \* FileMgr.inode_table: id -> address of the cached Inode, 0 if dead
    panic,         \* TRUE once an assertion failed or a slice was out of range
    last,          \* the last operation run: its name, arguments and result
    ops,           \* the number of operations run so far
    inodes,        \* the ids handed out by new_inode and not deleted since
    ref,           \* per inode id, the reference byte array of its content
    given          \* per inode id, the generations new_inode returned it with, oldest
                   \* first (recorded by the steps of SpecReuse)

vars == <<blocks, bitmap_block, heap, inode_table, panic, last, ops, inodes, ref, given>>

\* ------------------------------------------------------------------------
\* Results
\* ------------------------------------------------------------------------
State ==
    [blocks |-> blocks, bitmap_block |-> bitmap_block, heap |-> heap,
     inode_table |-> inode_table, panic |-> panic]

Ok(st, v) == [st |-> st, err |-> "OK", val |-> v]
Err(st, e) == [st |-> st, err |-> e, val |-> 0]
Panic(st) == [st |-> [st EXCEPT !.panic = TRUE], err |-> "PANIC", val |-> 0]

\* "let v = e; K(v)": e is computed once
Bind(e, K(_)) == CHOOSE y \in {K(v) : v \in {e}} : TRUE

\* "let v = e?; K(v)": an Err (or a panic) of e is the result
Try(e, K(_)) == CHOOSE y \in {IF v.err # "OK" THEN v ELSE K(v) : v \in {e}} : TRUE

\* the end of a read taken as the length, whatever the count
Min_first(a, b) == a

Min(a, b) == IF a < b THEN a ELSE b
Max(a, b) == IF a > b THEN a ELSE b

ZeroBlock == [i \in 1 .. BLOCK_SIZE |-> 0]
ZeroBitmap == [i \in 1 .. BITMAP_LEN |-> 0]

\* ------------------------------------------------------------------------
\* block_io.rs
\* ------------------------------------------------------------------------
BlockIORead(st, block_id) == st.blocks[block_id + 1]

BlockIOWrite(st, block_id, data) ==
    [st EXCEPT !.blocks[block_id + 1] = data]

\* ------------------------------------------------------------------------
\* block_mgr.rs
\* ------------------------------------------------------------------------
Pow2(k) == 2 ^ k

TestBit(byte, k) == (byte \div Pow2(k)) % 2 = 1

\* (!byte).trailing_zeros(): the number of one bits below the lowest zero bit
RECURSIVE TrailingOnes(_)
TrailingOnes(byte) ==
    IF byte % 2 = 1 THEN 1 + TrailingOnes(byte \div 2) ELSE 0

BitSet(bm, id) == TestBit(bm[id \div BYTE_BITS + 1], id % BYTE_BITS)

SetBit(bm, id) ==
    IF BitSet(bm, id) THEN bm
    ELSE [bm EXCEPT ![id \div BYTE_BITS + 1] = @ + Pow2(id % BYTE_BITS)]

ClearBit(bm, id) ==
    IF BitSet(bm, id)
    THEN [bm EXCEPT ![id \div BYTE_BITS + 1] = @ - Pow2(id % BYTE_BITS)]
    ELSE bm

\* ScanBitmap with a loop that stops one byte early
RECURSIVE ScanBitmap_short(_, _)
ScanBitmap_short(bm, i) ==
    IF i >= BITMAP_LEN - 1 THEN -1
    ELSE Bind(TrailingOnes(bm[i + 1]), LAMBDA occupied :
            IF occupied # BYTE_BITS THEN i * BYTE_BITS + occupied
            ELSE ScanBitmap_short(bm, i + 1))

RECURSIVE ScanBitmap(_, _)
ScanBitmap(bm, i) ==
    IF i >= BITMAP_LEN THEN -1
    ELSE Bind(TrailingOnes(bm[i + 1]), LAMBDA occupied :
            IF occupied # BYTE_BITS THEN i * BYTE_BITS + occupied
            ELSE ScanBitmap(bm, i + 1))

\* first_empty_block scanning from the top: the highest clear bit
first_empty_block_from_top(bm) ==
    Bind({k \in 0 .. NBITS - 1 : ~BitSet(bm, k)}, LAMBDA free :
        IF free = {} THEN -1 ELSE CHOOSE k \in free : \A j \in free : j <= k)

\* the 0-based bit index, or -1 for Err(ENOSPC)
first_empty_block(bm) == ScanBitmap(bm, 0)

SuperBlock ==
    [i \in 1 .. BLOCK_SIZE |-> IF i <= Len(MAGIC) THEN MAGIC[i] ELSE 0]

format(st) ==
    BlockIOWrite(BlockIOWrite(st, 0, SuperBlock), 1, ZeroBitmap)

is_formatted(st) ==
    LET super_block == BlockIORead(st, 0)
    IN  \A i \in 1 .. Len(MAGIC) : super_block[i] = MAGIC[i]

BlockMgrInit(st, need_format) ==
    Bind(IF need_format THEN format(st) ELSE st, LAMBDA s1 :
        [s1 EXCEPT !.bitmap_block = BlockIORead(s1, 1)])

\* new_block without the write of the bitmap block
new_block_mirror_only(st) ==
    Bind(first_empty_block(st.bitmap_block), LAMBDA id :
        IF id = -1 THEN Err(st, "ENOSPC")
        ELSE Ok([st EXCEPT !.bitmap_block = SetBit(@, id)], id + 1))

new_block(st) ==
    Bind(first_empty_block(st.bitmap_block), LAMBDA id :
        IF id = -1 THEN Err(st, "ENOSPC")
        ELSE Bind(SetBit(st.bitmap_block, id), LAMBDA bm :
                Ok(BlockIOWrite([st EXCEPT !.bitmap_block = bm], 1, bm), id + 1)))

\* _id - 1 underflows for _id = 0 and the bitmap index is out of range for an
\* id past the bitmap: both panic
del_block(st, _id) ==
    IF _id < 1 \/ _id > NBITS THEN Panic(st)
    ELSE Bind(ClearBit(st.bitmap_block, _id - 1), LAMBDA bm :
            Ok(BlockIOWrite([st EXCEPT !.bitmap_block = bm], 1, bm), 0))

read_block(st, _id) ==
    IF _id < 1 \/ _id > NBITS THEN Panic(st)
    ELSE IF ~BitSet(st.bitmap_block, _id - 1) THEN Panic(st)
    ELSE Ok(st, BlockIORead(st, (_id - 1) + 2))

\* write_block with the external id taken as the device index
write_block_unshifted(st, _id, data) ==
    IF _id < 1 \/ _id > NBITS THEN Panic(st)
    ELSE IF ~BitSet(st.bitmap_block, _id - 1) THEN Panic(st)
    ELSE Ok(BlockIOWrite(st, _id, data), 0)

write_block(st, _id, data) ==
    IF _id < 1 \/ _id > NBITS THEN Panic(st)
    ELSE IF ~BitSet(st.bitmap_block, _id - 1) THEN Panic(st)
    ELSE Ok(BlockIOWrite(st, (_id - 1) + 2, data), 0)

\* ------------------------------------------------------------------------
\* inode.rs: layout (one cell per field)
\* ------------------------------------------------------------------------
GENERATION_OFF == 0
GENERATION_SIZE == 1
LENGTH_OFF == GENERATION_OFF + GENERATION_SIZE
LENGTH_SIZE == 1
ATIME_OFF == LENGTH_OFF + LENGTH_SIZE
ATIME_SIZE == 1
MTIME_OFF == ATIME_OFF + ATIME_SIZE
MTIME_SIZE == 1
CTIME_OFF == MTIME_OFF + MTIME_SIZE
CTIME_SIZE == 1
MODE_OFF == CTIME_OFF + CTIME_SIZE
MODE_SIZE == 1
NLINK_OFF == MODE_OFF + MODE_SIZE
NLINK_SIZE == 1
UID_OFF == NLINK_OFF + NLINK_SIZE
UID_SIZE == 1
GID_OFF == UID_OFF + UID_SIZE
GID_SIZE == 1
INDEX_OFF == GID_OFF + GID_SIZE
INDEX_SIZE == 1
DIRECT_BLK_CNT == (BLOCK_SIZE - INDEX_OFF) \div INDEX_SIZE - 1
INDIRECT_BLK_CNT == BLOCK_SIZE \div INDEX_SIZE

\* the generation counter wraps (overflowing_add); the model wraps it early
GEN_MOD == 65536

\* ------------------------------------------------------------------------
\* inode.rs: the in-memory Inode.  indirect is <<>> for None, <<block>> for Some.
\* rc is the strong count of the Rc that owns the object; rc = 0 means there
\* is no object at this address.
\* ------------------------------------------------------------------------
NoInode ==
    [id |-> 0, dirty |-> FALSE, data |-> ZeroBlock, indirect |-> <<>>, rc |-> 0]

Alive(st, a) == st.heap[a].rc > 0

indirect_id(ino) == ino.data[BLOCK_SIZE - INDEX_SIZE + 1]

\* Inode::new: val is the new object (not yet owned by an Rc)
InodeNew(st, id) ==
    Try(read_block(st, id), LAMBDA r1 :
      Bind([id |-> id, dirty |-> FALSE, data |-> r1.val, indirect |-> <<>>, rc |-> 0],
           LAMBDA obj :
             IF indirect_id(obj) # 0
             THEN Try(read_block(st, indirect_id(obj)), LAMBDA r2 :
                     Ok(st, [obj EXCEPT !.indirect = <<r2.val>>]))
             ELSE Ok(st, obj)))

\* a flush that writes the mirror and leaves the dirty flag raised
InodeFlush_stays_dirty(st, a) ==
    LET ino == st.heap[a]
    IN  IF ino.dirty THEN write_block(st, ino.id, ino.data) ELSE Ok(st, 0)

InodeFlush(st, a) ==
    LET ino == st.heap[a]
    IN  IF ino.dirty
        THEN Try(write_block(st, ino.id, ino.data), LAMBDA r1 :
               IF indirect_id(ino) # 0
               THEN IF ino.indirect = <<>> THEN Panic(r1.st)
                    ELSE Try(write_block(r1.st, indirect_id(ino), ino.indirect[1]), LAMBDA r2 :
                            Ok([r2.st EXCEPT !.heap[a].dirty = FALSE], 0))
               ELSE Ok([r1.st EXCEPT !.heap[a].dirty = FALSE], 0))
        ELSE Ok(st, 0)

generation(ino) == ino.data[GENERATION_OFF + 1]
length(ino) == ino.data[LENGTH_OFF + 1]
atime(ino) == ino.data[ATIME_OFF + 1]
mtime(ino) == ino.data[MTIME_OFF + 1]
ctime(ino) == ino.data[CTIME_OFF + 1]
mode(ino) == ino.data[MODE_OFF + 1]
nlink(ino) == ino.data[NLINK_OFF + 1]
uid(ino) == ino.data[UID_OFF + 1]
gid(ino) == ino.data[GID_OFF + 1]

SetField(st, a, off, v) ==
    [st EXCEPT !.heap[a].data[off + 1] = v, !.heap[a].dirty = TRUE]

set_length(st, a, v) == SetField(st, a, LENGTH_OFF, v)
set_atime(st, a, v) == SetField(st, a, ATIME_OFF, v)
set_mtime(st, a, v) == SetField(st, a, MTIME_OFF, v)
set_ctime(st, a, v) == SetField(st, a, CTIME_OFF, v)
set_mode(st, a, v) == SetField(st, a, MODE_OFF, v)
set_nlink(st, a, v) == SetField(st, a, NLINK_OFF, v)
set_uid(st, a, v) == SetField(st, a, UID_OFF, v)
set_gid(st, a, v) == SetField(st, a, GID_OFF, v)

S_IFMT == 61440
S_IFREG == 32768
S_IFDIR == 16384
S_IFLNK == 40960
PERM_MOD == 4096

\* Inode::kind: "EINVAL" stands for the Err
kind(ino) ==
    LET fmt == (mode(ino) \div PERM_MOD) * PERM_MOD
    IN  IF fmt = S_IFREG THEN "RegularFile"
        ELSE IF fmt = S_IFDIR THEN "Directory"
        ELSE IF fmt = S_IFLNK THEN "Symlink"
        ELSE "EINVAL"

perm(ino) == mode(ino) % PERM_MOD

data_block(ino, index) ==
    IF index < DIRECT_BLK_CNT
    THEN ino.data[INDEX_OFF + index * INDEX_SIZE + 1]
    ELSE IF index < DIRECT_BLK_CNT + INDIRECT_BLK_CNT
    THEN IF ino.indirect # <<>>
         THEN ino.indirect[1][(index - DIRECT_BLK_CNT) * INDEX_SIZE + 1]
         ELSE 0
    ELSE 0

set_data_block(st, a, index, blk) ==
    Bind([st EXCEPT !.heap[a].dirty = TRUE], LAMBDA s0 :
        IF index < DIRECT_BLK_CNT
        THEN Ok([s0 EXCEPT !.heap[a].data[INDEX_OFF + index * INDEX_SIZE + 1] = blk], 0)
        ELSE IF index < DIRECT_BLK_CNT + INDIRECT_BLK_CNT
        THEN Try(IF s0.heap[a].indirect = <<>>
                 THEN Try(new_block(s0), LAMBDA rn :
                         Ok([rn.st EXCEPT
                               !.heap[a].data[BLOCK_SIZE - INDEX_SIZE + 1] = rn.val,
                               !.heap[a].indirect = <<ZeroBlock>>], 0))
                 ELSE Ok(s0, 0),
                 LAMBDA r1 :
                   Ok([r1.st EXCEPT
                         !.heap[a].indirect[1][(index - DIRECT_BLK_CNT) * INDEX_SIZE + 1] = blk],
                      0))
        ELSE Err(s0, "EFBIG"))

\* impl Drop for Inode, run when the last Rc goes: assert!(!dirty).  The Weak in
\* the inode table can no longer be upgraded.
DropRc(st, a) ==
    IF st.panic THEN st
    ELSE IF st.heap[a].rc > 1 THEN [st EXCEPT !.heap[a].rc = @ - 1]
    ELSE IF st.heap[a].dirty THEN [st EXCEPT !.panic = TRUE]
    ELSE [st EXCEPT !.heap[a] = NoInode,
                    !.inode_table = [i \in DOMAIN @ |-> IF @[i] = a THEN 0 ELSE @[i]]]

\* ------------------------------------------------------------------------
\* file_mgr.rs.  Its calls of set_data_block are taken with the block manager
\* argument of inode.rs and with the error of the call propagated.
\* ------------------------------------------------------------------------
Zeros(n) == [k \in 1 .. n |-> 0]

FreeAddrs(st) == {a \in 1 .. HEAP_SIZE : st.heap[a].rc = 0}

\* read_inode without the upgrade of the Weak in the inode table: every call
\* builds a new Inode
read_inode_uncached(st, id) ==
    IF id < 1 \/ id > NBITS THEN Panic(st)
    ELSE Try(InodeNew(st, id), LAMBDA r1 :
           IF FreeAddrs(st) = {} THEN Panic(st)
           ELSE Bind(CHOOSE x \in FreeAddrs(st) : \A y \in FreeAddrs(st) : x <= y, LAMBDA a :
                   Ok([r1.st EXCEPT !.heap[a] = [r1.val EXCEPT !.rc = 1],
                                    !.inode_table[id] = a], a)))

\* FileMgr::read_inode: val is the address of the Inode, whose strong count
\* has grown by one
read_inode(st, id) ==
    IF id < 1 \/ id > NBITS THEN Panic(st)
    ELSE IF st.inode_table[id] # 0
    THEN Ok([st EXCEPT !.heap[st.inode_table[id]].rc = @ + 1], st.inode_table[id])
    ELSE Try(InodeNew(st, id), LAMBDA r1 :
           IF FreeAddrs(st) = {} THEN Panic(st)   \* allocation failure aborts
           ELSE Bind(CHOOSE x \in FreeAddrs(st) : \A y \in FreeAddrs(st) : x <= y, LAMBDA a :
                   Ok([r1.st EXCEPT !.heap[a] = [r1.val EXCEPT !.rc = 1],
                                    !.inode_table[id] = a], a)))

read_root_inode(st) == read_inode(st, 1)

new_inode(st) ==
    Try(new_block(st), LAMBDA r1 :
      Try(read_block(r1.st, r1.val), LAMBDA r2 :
        Bind([ZeroBlock EXCEPT ![GENERATION_OFF + 1] =
                                  (r2.val[GENERATION_OFF + 1] + 1) % GEN_MOD],
             LAMBDA block :
               Try(write_block(r2.st, r1.val, block), LAMBDA r3 :
                 read_inode(r3.st, r1.val)))))

FileMgrInit(st, need_format) ==
    Bind(BlockMgrInit(st, need_format), LAMBDA s1 :
        IF need_format
        THEN Try(new_inode(s1), LAMBDA r1 :
               IF r1.st.heap[r1.val].id # 1 THEN Panic(r1.st)
               ELSE Ok(DropRc(r1.st, r1.val), 0))
        ELSE Ok(s1, 0))

del_inode(st, a) == del_block(st, st.heap[a].id)

\* one block's worth of a read: the block of slot i, or zeros for a hole
ReadSlot(st, a, i) ==
    LET id == data_block(st.heap[a], i)
    IN  IF id > 0 THEN read_block(st, id) ELSE Ok(st, ZeroBlock)

RECURSIVE ReadFull(_, _, _, _, _)
ReadFull(st, a, i, end_block, ret) ==
    IF i >= end_block THEN Ok(st, ret)
    ELSE Try(ReadSlot(st, a, i), LAMBDA r :
           Bind(ret \o r.val, LAMBDA ret2 :
             ReadFull(st, a, i + 1, end_block, ret2)))

read_file(st, a, offset, count) ==
    LET len == length(st.heap[a])
        start == offset
        end == Min(len, offset + count)
    IN  IF offset >= len THEN Ok(st, <<>>)
        ELSE IF start \div BLOCK_SIZE = end \div BLOCK_SIZE
        THEN Try(ReadSlot(st, a, start \div BLOCK_SIZE), LAMBDA r :
               Ok(st, SubSeq(r.val, (start % BLOCK_SIZE) + 1, (end % BLOCK_SIZE))))
        ELSE LET start_block == (start + BLOCK_SIZE - 1) \div BLOCK_SIZE
                 end_block == end \div BLOCK_SIZE
             IN  Try(IF (start % BLOCK_SIZE) # 0
                     THEN Try(ReadSlot(st, a, start_block - 1), LAMBDA r :
                            Ok(st, SubSeq(r.val, (start % BLOCK_SIZE) + 1, BLOCK_SIZE)))
                     ELSE Ok(st, <<>>),
                     LAMBDA r1 :
                 Try(ReadFull(st, a, start_block, end_block, r1.val), LAMBDA r2 :
                   IF (end % BLOCK_SIZE) # 0
                   THEN Try(ReadSlot(st, a, end_block), LAMBDA r3 :
                          Ok(st, r2.val \o SubSeq(r3.val, 1, (end % BLOCK_SIZE))))
                   ELSE r2))

\* "let mut id = inode.data_block(i); if id == 0 { id = new_block()?;
\*  inode.set_data_block(i, id); [0; BLOCK_SIZE] } else { read_block(id)? }":
\* val is [id, block].  need_read is FALSE where the source overwrites the whole
\* block and reads nothing.
SlotForWrite(st, a, i, need_read) ==
    LET id == data_block(st.heap[a], i)
    IN  IF id = 0
        THEN Try(new_block(st), LAMBDA r1 :
               Try(set_data_block(r1.st, a, i, r1.val), LAMBDA r2 :
                 Ok(r2.st, [id |-> r1.val, block |-> ZeroBlock])))
        ELSE IF need_read
        THEN Try(read_block(st, id), LAMBDA r1 :
               Ok(st, [id |-> id, block |-> r1.val]))
        ELSE Ok(st, [id |-> id, block |-> ZeroBlock])

\* write_file without its set_length calls
AdvanceLength_never(st, a, to) == st

\* the length set to the end of the write, without the max
AdvanceLength_set(st, a, to) == set_length(st, a, to)

\* inode.set_length(max(inode.length(), offset + write_cnt))
AdvanceLength(st, a, to) == set_length(st, a, Max(length(st.heap[a]), to))

\* WritePart that starts every partial block from zeros instead of reading it
WritePart_unread(st, a, i, lo, src, need_read, newlen) ==
    Try(SlotForWrite(st, a, i, FALSE), LAMBDA r1 :
      Bind(SubSeq(r1.val.block, 1, lo) \o src
               \o SubSeq(r1.val.block, lo + Len(src) + 1, BLOCK_SIZE),
           LAMBDA block :
             Try(write_block(r1.st, r1.val.id, block), LAMBDA r2 :
               Ok(set_length(r2.st, a, Max(length(r2.st.heap[a]), newlen)), 0))))

\* write one block of slot i, cells from lo on taken from src, then advance the length
WritePart(st, a, i, lo, src, need_read, newlen) ==
    Try(SlotForWrite(st, a, i, need_read), LAMBDA r1 :
      Bind(SubSeq(r1.val.block, 1, lo) \o src
               \o SubSeq(r1.val.block, lo + Len(src) + 1, BLOCK_SIZE),
           LAMBDA block :
             Try(write_block(r1.st, r1.val.id, block), LAMBDA r2 :
               Ok(AdvanceLength(r2.st, a, newlen), 0))))

RECURSIVE WriteFull(_, _, _, _, _, _, _)
WriteFull(st, a, offset, data, i, end_block, write_cnt) ==
    IF i >= end_block THEN Ok(st, write_cnt)
    ELSE Try(WritePart(st, a, i, 0, SubSeq(data, write_cnt + 1, write_cnt + BLOCK_SIZE),
                       FALSE, offset + write_cnt + BLOCK_SIZE),
             LAMBDA r :
               WriteFull(r.st, a, offset, data, i + 1, end_block, write_cnt + BLOCK_SIZE))

write_file(st, a, offset, data) ==
    LET start == offset
        end == start + Len(data)
    IN  IF start \div BLOCK_SIZE = end \div BLOCK_SIZE
        THEN Try(WritePart(st, a, start \div BLOCK_SIZE, (start % BLOCK_SIZE), data,
                           TRUE, offset + Len(data)),
                 LAMBDA r1 :
                   Try(InodeFlush(r1.st, a), LAMBDA r2 : Ok(r2.st, Len(data))))
        ELSE LET start_block == (start + BLOCK_SIZE - 1) \div BLOCK_SIZE
                 end_block == end \div BLOCK_SIZE
                 head == BLOCK_SIZE - (start % BLOCK_SIZE)
             IN  Try(IF (start % BLOCK_SIZE) # 0
                     THEN Try(WritePart(st, a, start_block - 1, (start % BLOCK_SIZE),
                                        SubSeq(data, 1, head), TRUE, offset + head),
                              LAMBDA r : Ok(r.st, head))
                     ELSE Ok(st, 0),
                     LAMBDA r1 :
                 Try(WriteFull(r1.st, a, offset, data, start_block, end_block, r1.val),
                     LAMBDA r2 :
                 Try(IF (end % BLOCK_SIZE) # 0
                     THEN Try(WritePart(r2.st, a, end_block, 0,
                                        SubSeq(data, r2.val + 1, Len(data)),
                                        TRUE, offset + r2.val + (end % BLOCK_SIZE)),
                              LAMBDA r : Ok(r.st, r2.val + (end % BLOCK_SIZE)))
                     ELSE r2,
                     LAMBDA r3 :
                   IF r3.val # Len(data) THEN Panic(r3.st)
                   ELSE Try(InodeFlush(r3.st, a), LAMBDA r4 : Ok(r4.st, r3.val)))))

\* truncate_file without its loop over the blocks past the new end
FreeSlots_skipped(st, a, i, old_block_cnt) == Ok(st, 0)

\* truncate_file's loop freeing each block but leaving its id in the slot
RECURSIVE FreeSlots_dangling(_, _, _, _)
FreeSlots_dangling(st, a, i, old_block_cnt) ==
    IF i >= old_block_cnt THEN Ok(st, 0)
    ELSE LET id == data_block(st.heap[a], i)
         IN  IF id > 0
             THEN Try(del_block(st, id), LAMBDA r2 :
                    FreeSlots_dangling(r2.st, a, i + 1, old_block_cnt))
             ELSE FreeSlots_dangling(st, a, i + 1, old_block_cnt)

\* truncate_file's loop begun one slot late
RECURSIVE FreeSlots_rest(_, _, _, _)
FreeSlots_rest(st, a, i, old_block_cnt) ==
    IF i >= old_block_cnt THEN Ok(st, 0)
    ELSE LET id == data_block(st.heap[a], i)
         IN  IF id > 0
             THEN Try(set_data_block(st, a, i, 0), LAMBDA r1 :
                    Try(del_block(r1.st, id), LAMBDA r2 :
                      FreeSlots_rest(r2.st, a, i + 1, old_block_cnt)))
             ELSE FreeSlots_rest(st, a, i + 1, old_block_cnt)

FreeSlots_late(st, a, i, old_block_cnt) == FreeSlots_rest(st, a, i + 1, old_block_cnt)

RECURSIVE FreeSlots(_, _, _, _)
FreeSlots(st, a, i, old_block_cnt) ==
    IF i >= old_block_cnt THEN Ok(st, 0)
    ELSE LET id == data_block(st.heap[a], i)
         IN  IF id > 0
             THEN Try(set_data_block(st, a, i, 0), LAMBDA r1 :
                    Try(del_block(r1.st, id), LAMBDA r2 :
                      FreeSlots(r2.st, a, i + 1, old_block_cnt)))
             ELSE FreeSlots(st, a, i + 1, old_block_cnt)

truncate_file(st, a, len) ==
    LET old == length(st.heap[a])
        block_cnt_plus_one == (len + BLOCK_SIZE - 1) \div BLOCK_SIZE
        old_block_cnt == (old + BLOCK_SIZE - 1) \div BLOCK_SIZE
    IN  Try(IF len < old
            THEN Try(FreeSlots(st, a, block_cnt_plus_one, old_block_cnt), LAMBDA rf :
                   IF (len % BLOCK_SIZE) # 0
                   THEN LET id == data_block(rf.st.heap[a], len \div BLOCK_SIZE)
                        IN  IF id > 0
                            THEN Try(read_block(rf.st, id), LAMBDA rr :
                                   write_block(rr.st, id,
                                       SubSeq(rr.val, 1, (len % BLOCK_SIZE))
                                           \o Zeros(BLOCK_SIZE - (len % BLOCK_SIZE))))
                            ELSE rf
                   ELSE rf)
            ELSE Ok(st, 0),
            LAMBDA r1 :
              Bind(set_length(r1.st, a, len), LAMBDA s : InodeFlush(s, a)))

FileMgrFlush(st, a) == InodeFlush(st, a)

\* ------------------------------------------------------------------------
\* main.rs: directory entries
\* ------------------------------------------------------------------------
DIR_ITEM_SIZE == 5
DIR_ITEM_INODE_SIZE == 1
DIR_ITME_NAME_LEN_SIZE == 1
DIR_ITEM_NAME_SIZE == DIR_ITEM_SIZE - DIR_ITEM_INODE_SIZE - DIR_ITME_NAME_LEN_SIZE
MAX_NAME_LEN == DIR_ITEM_NAME_SIZE - 1

\* names are sequences of character codes
DOT == <<46>>
DOTDOT == <<46, 46>>

O_RDONLY == 0
O_WRONLY == 1
O_RDWR == 2
O_ACCMODE == 3

\* time::now_utc(): the clock is not modelled, every stamp is the same instant
NOW == 1

\* U+FFFD REPLACEMENT CHARACTER (EF BF BD in UTF-8), scaled to two cells as the
\* directory entry is
REPLACEMENT == <<239, 189>>

\* OsStr::to_string_lossy / Path::to_string_lossy followed by as_bytes: cells
\* below 128 are ASCII and stay, a cell that begins no character of the
\* model is replaced by U+FFFD.  The only character of more than one cell is
\* U+FFFD itself.
RECURSIVE to_string_lossy(_)
to_string_lossy(s) ==
    IF s = <<>> THEN <<>>
    ELSE IF Head(s) < 128 THEN <<Head(s)>> \o to_string_lossy(Tail(s))
    ELSE IF Len(s) >= 2 /\ SubSeq(s, 1, 2) = REPLACEMENT
    THEN REPLACEMENT \o to_string_lossy(SubSeq(s, 3, Len(s)))
    ELSE REPLACEMENT \o to_string_lossy(Tail(s))

\* std::str::from_utf8(..) is Ok
from_utf8_ok(s) == to_string_lossy(s) = s

\* the slices of parse_dir_item are out of range for a short item or a name
\* length that runs past its end
ParsePanics(item) ==
    \/ Len(item) < DIR_ITEM_INODE_SIZE + DIR_ITME_NAME_LEN_SIZE
    \/ DIR_ITEM_INODE_SIZE + DIR_ITME_NAME_LEN_SIZE + item[DIR_ITEM_INODE_SIZE + 1] > Len(item)
    \/ ~from_utf8_ok(SubSeq(item, DIR_ITEM_INODE_SIZE + DIR_ITME_NAME_LEN_SIZE + 1,
                            DIR_ITEM_INODE_SIZE + DIR_ITME_NAME_LEN_SIZE
                                + item[DIR_ITEM_INODE_SIZE + 1]))

parse_dir_item(item) ==
    [ino |-> item[1],
     name |-> SubSeq(item, DIR_ITEM_INODE_SIZE + DIR_ITME_NAME_LEN_SIZE + 1,
                     DIR_ITEM_INODE_SIZE + DIR_ITME_NAME_LEN_SIZE + item[DIR_ITEM_INODE_SIZE + 1])]

\* <<>> stands for Err(ENAMETOOLONG)
assembly_dir_itme(ino, name) ==
    Bind(to_string_lossy(name), LAMBDA name_bytes :
      IF Len(name_bytes) > MAX_NAME_LEN THEN <<>>
      ELSE <<ino, Len(name_bytes)>> \o name_bytes
               \o Zeros(DIR_ITEM_NAME_SIZE - Len(name_bytes)))

set_newly_created(st, req, a, md) ==
    Bind(set_gid(set_uid(set_nlink(set_mode(set_ctime(set_mtime(set_atime(
             st, a, NOW), a, NOW), a, NOW), a, md), a, 1), a, req.uid), a, req.gid),
         LAMBDA s : FileMgrFlush(s, a))

\* val is [offset, ino]
RECURSIVE LookupFrom(_, _, _, _)
LookupFrom(st, parent, name, offset) ==
    Try(read_file(st, parent, offset * DIR_ITEM_SIZE, DIR_ITEM_SIZE), LAMBDA r :
      IF r.val = <<>> THEN Err(st, "ENOENT")
      ELSE IF ParsePanics(r.val) THEN Panic(st)
      ELSE IF parse_dir_item(r.val).name = name
      THEN Ok(st, [offset |-> offset, ino |-> parse_dir_item(r.val).ino])
      ELSE LookupFrom(st, parent, name, offset + 1))

\* the scan started past the first entry
lookup_item_from_second(st, parent, name) == LookupFrom(st, parent, name, 1)

lookup_item(st, parent, name) == LookupFrom(st, parent, name, 0)

write_dir_item(st, id, newparent, newname) ==
    Bind(assembly_dir_itme(id, newname), LAMBDA item :
      IF item = <<>> THEN Err(st, "ENAMETOOLONG")
      ELSE Try(write_file(st, newparent, length(st.heap[newparent]), item), LAMBDA r :
             Ok(r.st, 0)))

\* length / DIR_ITEM_SIZE - 1 underflows for an empty directory
\* erase_dir_item without the copy of the last entry
erase_dir_item_noswap(st, parent, offset) ==
    IF length(st.heap[parent]) < DIR_ITEM_SIZE THEN Panic(st)
    ELSE truncate_file(st, parent, length(st.heap[parent]) - DIR_ITEM_SIZE)

erase_dir_item(st, parent, offset) ==
    IF length(st.heap[parent]) < DIR_ITEM_SIZE THEN Panic(st)
    ELSE LET last_offset == length(st.heap[parent]) \div DIR_ITEM_SIZE - 1
         IN  Try(IF offset < last_offset
                 THEN Try(read_file(st, parent, last_offset * DIR_ITEM_SIZE, DIR_ITEM_SIZE),
                          LAMBDA rr : write_file(rr.st, parent, offset * DIR_ITEM_SIZE, rr.val))
                 ELSE Ok(st, 0),
                 LAMBDA r1 :
                   truncate_file(r1.st, parent, length(r1.st.heap[parent]) - DIR_ITEM_SIZE))

PermBit(p, bit) == (p \div bit) % 2 = 1

\* has_read_perm where the owner's class hides the group's and the others'
has_read_perm_exclusive(req, ino) ==
    IF req.uid = uid(ino) THEN PermBit(perm(ino), 256)
    ELSE IF req.gid = gid(ino) THEN PermBit(perm(ino), 32)
    ELSE PermBit(perm(ino), 4)

has_read_perm(req, ino) ==
    \/ req.uid = uid(ino) /\ PermBit(perm(ino), 256)
    \/ req.gid = gid(ino) /\ PermBit(perm(ino), 32)
    \/ PermBit(perm(ino), 4)

has_write_perm(req, ino) ==
    \/ req.uid = uid(ino) /\ PermBit(perm(ino), 128)
    \/ req.gid = gid(ino) /\ PermBit(perm(ino), 16)
    \/ PermBit(perm(ino), 2)

\* "OK" or "EPERM"; flags & O_ACCMODE is flags modulo O_ACCMODE + 1
check_perm(req, ino, flags) ==
    LET is_reading == flags % (O_ACCMODE + 1) = O_RDONLY \/ flags % (O_ACCMODE + 1) = O_RDWR
        is_writing == flags % (O_ACCMODE + 1) = O_WRONLY \/ flags % (O_ACCMODE + 1) = O_RDWR
    IN  IF ~has_read_perm(req, ino) /\ is_reading THEN "EPERM"
        ELSE IF ~has_write_perm(req, ino) /\ is_writing THEN "EPERM"
        ELSE "OK"

\* the result r of a scope whose local Rc at address a is dropped on the way out
Finish(r, a) ==
    Bind(r, LAMBDA v :
      Bind(DropRc(v.st, a), LAMBDA s :
        IF s.panic /\ ~v.st.panic THEN Panic(v.st) ELSE [v EXCEPT !.st = s]))

\* getattr_impl fails only through Inode::kind
getattr_impl(ino) == IF kind(ino) = "EINVAL" THEN "EINVAL" ELSE "OK"

\* val is the address of the opened Inode, which the caller owns
open_impl(st, req, _ino, flags) ==
    Try(read_inode(st, _ino), LAMBDA r :
      IF check_perm(req, r.st.heap[r.val], flags) # "OK"
      THEN Finish(Err(r.st, "EPERM"), r.val)
      ELSE r)

init_impl(st, req) ==
    Try(FileMgrInit(st, ~is_formatted(st)), LAMBDA r0 :
      Try(read_root_inode(r0.st), LAMBDA r1 :
        Finish(Try(set_newly_created(r1.st, req, r1.val, S_IFDIR + 511), LAMBDA r2 :
                 Try(write_dir_item(r2.st, 1, r1.val, DOT), LAMBDA r3 :
                   write_dir_item(r3.st, 1, r1.val, DOTDOT))),
               r1.val)))

\* val is the inode id found
lookup_impl(st, req, parent, name) ==
    Try(lookup_item(st, parent, name), LAMBDA r1 :
      Try(read_inode(r1.st, r1.val.ino), LAMBDA r2 :
        Finish(IF getattr_impl(r2.st.heap[r2.val]) # "OK" THEN Err(r2.st, "EINVAL")
               ELSE Ok(r2.st, r1.val.ino),
               r2.val)))

\* link_impl without the set_nlink
link_impl_uncounted(st, req, inode, newparent, newname) ==
    Try(FileMgrFlush(st, inode), LAMBDA r1 :
        IF getattr_impl(r1.st.heap[inode]) # "OK" THEN Err(r1.st, "EINVAL")
        ELSE write_dir_item(r1.st, st.heap[inode].id, newparent, newname))

link_impl(st, req, inode, newparent, newname) ==
    Bind(set_nlink(st, inode, nlink(st.heap[inode]) + 1), LAMBDA s1 :
      Try(FileMgrFlush(s1, inode), LAMBDA r1 :
        IF getattr_impl(r1.st.heap[inode]) # "OK" THEN Err(r1.st, "EINVAL")
        ELSE write_dir_item(r1.st, st.heap[inode].id, newparent, newname)))

\* unlink_impl without the test for a directory that has entries
unlink_impl_unchecked(st, req, parent, name) ==
    Try(lookup_item(st, parent, name), LAMBDA r1 :
      Try(read_inode(r1.st, r1.val.ino), LAMBDA r2 :
        Finish(IF kind(r2.st.heap[r2.val]) = "EINVAL" THEN Err(r2.st, "EINVAL")
               ELSE Try(erase_dir_item(r2.st, parent, r1.val.offset), LAMBDA r3 :
                      IF nlink(r3.st.heap[r2.val]) = 0 THEN Panic(r3.st)
                      ELSE IF nlink(r3.st.heap[r2.val]) - 1 > 0
                      THEN Bind(set_nlink(r3.st, r2.val, nlink(r3.st.heap[r2.val]) - 1),
                                LAMBDA s : FileMgrFlush(s, r2.val))
                      ELSE del_inode(r3.st, r2.val)),
               r2.val)))

\* nlink() - 1 underflows for a link count of zero
unlink_impl(st, req, parent, name) ==
    Try(lookup_item(st, parent, name), LAMBDA r1 :
      Try(read_inode(r1.st, r1.val.ino), LAMBDA r2 :
        Finish(IF kind(r2.st.heap[r2.val]) = "EINVAL" THEN Err(r2.st, "EINVAL")
               ELSE IF kind(r2.st.heap[r2.val]) = "Directory"
                       /\ length(r2.st.heap[r2.val]) > 2 * DIR_ITEM_SIZE
               THEN Err(r2.st, "ENOTEMPTY")
               ELSE Try(erase_dir_item(r2.st, parent, r1.val.offset), LAMBDA r3 :
                      IF nlink(r3.st.heap[r2.val]) = 0 THEN Panic(r3.st)
                      ELSE IF nlink(r3.st.heap[r2.val]) - 1 > 0
                      THEN Bind(set_nlink(r3.st, r2.val, nlink(r3.st.heap[r2.val]) - 1),
                                LAMBDA s : FileMgrFlush(s, r2.val))
                      ELSE del_inode(r3.st, r2.val)),
               r2.val)))

\* "if let Ok(..) = lookup_item(newparent, newname)": any Err skips the erase
rename_impl(st, req, parent, name, newparent, newname) ==
    Try(lookup_item(st, parent, name), LAMBDA r1 :
      Try(erase_dir_item(r1.st, parent, r1.val.offset), LAMBDA r2 :
        Bind(lookup_item(r2.st, newparent, newname), LAMBDA r3 :
          Try(IF r3.err = "OK" THEN erase_dir_item(r3.st, newparent, r3.val.offset)
              ELSE IF r3.err = "PANIC" THEN r3
              ELSE Ok(r2.st, 0),
              LAMBDA r4 : write_dir_item(r4.st, r1.val.ino, newparent, newname)))))

\* val is the id of the new inode
symlink_impl(st, req, parent, name, target) ==
    Try(new_inode(st), LAMBDA r0 :
      Finish(Try(set_newly_created(r0.st, req, r0.val, S_IFLNK + 511), LAMBDA r1 :
               IF getattr_impl(r1.st.heap[r0.val]) # "OK" THEN Err(r1.st, "EINVAL")
               ELSE Try(write_dir_item(r1.st, r0.st.heap[r0.val].id, parent, name), LAMBDA r2 :
                      Bind(to_string_lossy(target), LAMBDA bytes :
                        Try(truncate_file(r2.st, r0.val, Len(bytes)), LAMBDA r3 :
                          Try(write_file(r3.st, r0.val, 0, bytes), LAMBDA r4 :
                            Ok(r4.st, r0.st.heap[r0.val].id)))))),
             r0.val))

\* val is the id of the new inode
mkdir_impl(st, req, parent, name, md) ==
    Try(new_inode(st), LAMBDA r0 :
      Finish(Try(set_newly_created(r0.st, req, r0.val, S_IFDIR + (md % PERM_MOD)), LAMBDA r1 :
               Try(write_dir_item(r1.st, r0.st.heap[r0.val].id, r0.val, DOT), LAMBDA r2 :
                 Try(write_dir_item(r2.st, st.heap[parent].id, r0.val, DOTDOT), LAMBDA r3 :
                   IF getattr_impl(r3.st.heap[r0.val]) # "OK" THEN Err(r3.st, "EINVAL")
                   ELSE Try(write_dir_item(r3.st, r0.st.heap[r0.val].id, parent, name),
                            LAMBDA r4 : Ok(r4.st, r0.st.heap[r0.val].id))))),
             r0.val))

\* val is the address of the new Inode, which the caller owns
create_impl(st, req, parent, name, md, flags) ==
    Try(new_inode(st), LAMBDA r0 :
      Bind(Try(set_newly_created(r0.st, req, r0.val, S_IFREG + (md % PERM_MOD)), LAMBDA r1 :
             IF getattr_impl(r1.st.heap[r0.val]) # "OK" THEN Err(r1.st, "EINVAL")
             ELSE Try(write_dir_item(r1.st, r0.st.heap[r0.val].id, parent, name), LAMBDA r2 :
                    IF check_perm(req, r2.st.heap[r0.val], flags) # "OK"
                    THEN Err(r2.st, "EPERM")
                    ELSE Ok(r2.st, r0.val))),
           LAMBDA r : IF r.err # "OK" THEN Finish(r, r0.val) ELSE r))

\* ------------------------------------------------------------------------
\* main.rs: impl fuse::Filesystem for Rfs.  Each handler runs its closure and
\* drops the Rcs the closure held, in reverse order of their declaration.
\* ------------------------------------------------------------------------
lookup(st, req, _parent, name) ==
    Try(open_impl(st, req, _parent, O_RDONLY), LAMBDA r0 :
      Finish(lookup_impl(r0.st, req, r0.val, name), r0.val))

link(st, req, _ino, _newparent, newname) ==
    Try(open_impl(st, req, _newparent, O_WRONLY), LAMBDA r0 :
      Finish(Try(read_inode(r0.st, _ino), LAMBDA r1 :
               Finish(link_impl(r1.st, req, r1.val, r0.val, newname), r1.val)),
             r0.val))

unlink(st, req, _parent, name) ==
    Try(open_impl(st, req, _parent, O_WRONLY), LAMBDA r0 :
      Finish(unlink_impl(r0.st, req, r0.val, name), r0.val))

rmdir(st, req, _parent, name) ==
    Try(open_impl(st, req, _parent, O_WRONLY), LAMBDA r0 :
      Finish(unlink_impl(r0.st, req, r0.val, name), r0.val))

rename(st, req, _parent, name, _newparent, newname) ==
    Try(open_impl(st, req, _parent, O_WRONLY), LAMBDA r0 :
      Finish(Try(open_impl(r0.st, req, _newparent, O_WRONLY), LAMBDA r1 :
               Finish(rename_impl(r1.st, req, r0.val, name, r1.val, newname), r1.val)),
             r0.val))

symlink(st, req, _parent, name, target) ==
    Try(open_impl(st, req, _parent, O_WRONLY), LAMBDA r0 :
      Finish(symlink_impl(r0.st, req, r0.val, name, target), r0.val))

read_impl(st, req, inode, _offset, _size) ==
    IF _offset < 0 THEN Err(st, "EINVAL")
    ELSE read_file(st, inode, _offset, _size)

\* val is the bytes of the reply
readlink(st, req, _ino) ==
    Try(open_impl(st, req, _ino, O_RDONLY), LAMBDA r0 :
      Finish(read_impl(r0.st, req, r0.val, 0, length(r0.st.heap[r0.val])), r0.val))

mkdir(st, req, _parent, name, md) ==
    Try(open_impl(st, req, _parent, O_WRONLY), LAMBDA r0 :
      Finish(mkdir_impl(r0.st, req, r0.val, name, md), r0.val))

\* val is the file handle: the address of the Inode, whose Rc the kernel now holds
open(st, req, _ino, flags) == open_impl(st, req, _ino, flags)

opendir(st, req, _ino, flags) == open_impl(st, req, _ino, flags)

\* val is the file handle
create(st, req, _parent, name, md, flags) ==
    Try(open_impl(st, req, _parent, O_WRONLY), LAMBDA r0 :
      Finish(create_impl(r0.st, req, r0.val, name, md, flags), r0.val))

write(st, req, _fh, offset, data) == write_file(st, _fh, offset, data)

\* Rc::from_raw(_fh) is dropped at once
release(st, _fh) == Finish(Ok(st, 0), _fh)

releasedir(st, _fh) == Finish(Ok(st, 0), _fh)

\* ------------------------------------------------------------------------
\* The record of the last operation
\* ------------------------------------------------------------------------
NoLast ==
    [op |-> "new", err |-> "OK", id |-> 0, off |-> 0, val |-> 0, data |-> <<>>,
     out |-> <<>>, name |-> <<>>, id2 |-> 0, name2 |-> <<>>]

FreshDevice ==
    [d \in 1 .. NDEV |-> IF d = 2 THEN ZeroBitmap ELSE ZeroBlock]

\* the process right after BlockMgr::new / FileMgr::new over a never-written device
FreshState ==
    [blocks |-> FreshDevice, bitmap_block |-> ZeroBitmap,
     heap |-> [a \in 1 .. HEAP_SIZE |-> NoInode],
     inode_table |-> [i \in 1 .. NBITS |-> 0], panic |-> FALSE]

Install(st) ==
    /\ blocks' = st.blocks
    /\ bitmap_block' = st.bitmap_block
    /\ heap' = st.heap
    /\ inode_table' = st.inode_table
    /\ panic' = st.panic

\* ------------------------------------------------------------------------
\* The reference content of a file: a byte array that a write zero-extends to
\* its end and overwrites, and that a truncate cuts or pads with zeros.
\* valid is FALSE once a call on the inode has failed part-way; wonly is TRUE
\* while the inode has only been written, never truncated.
\* ------------------------------------------------------------------------
NoRef == [i \in 1 .. NBITS |-> [valid |-> FALSE, wonly |-> FALSE, bytes |-> <<>>]]

\* no inode handed out yet
NoGiven == [i \in 1 .. NBITS |-> <<>>]

NewRef == [valid |-> TRUE, wonly |-> TRUE, bytes |-> <<>>]

RefWrite(bytes, off, data) ==
    [k \in 1 .. Max(Len(bytes), off + Len(data)) |->
        IF k > off /\ k <= off + Len(data) THEN data[k - off]
        ELSE IF k <= Len(bytes) THEN bytes[k]
        ELSE 0]

RefTruncate(bytes, len) ==
    [k \in 1 .. len |-> IF k <= Len(bytes) THEN bytes[k] ELSE 0]

\* the bytes an operation writes: all different, and different from those of
\* every earlier operation
MkData(n, tag) == [k \in 1 .. n |-> 40 * tag + k]

Range(f) == {f[k] : k \in DOMAIN f}

\* ------------------------------------------------------------------------
\* SpecBlk: the block manager alone, as test_new_del_blocks drives it
\* ------------------------------------------------------------------------
Start(st) ==
    /\ blocks = st.blocks
    /\ bitmap_block = st.bitmap_block
    /\ heap = st.heap
    /\ inode_table = st.inode_table
    /\ panic = st.panic

BlkInit ==
    /\ \E st \in {BlockMgrInit(FreshState, ~is_formatted(FreshState))} : Start(st)
    /\ last = [NoLast EXCEPT !.op = "init"]
    /\ ops = 0
    /\ inodes = {}
    /\ ref = NoRef
    /\ given = NoGiven

BlkNew ==
    /\ ~panic
    /\ \E r \in {new_block(State)} :
           /\ Install(r.st)
           /\ last' = [NoLast EXCEPT !.op = "new_block", !.err = r.err, !.val = r.val]
           /\ UNCHANGED <<ops, inodes, ref, given>>

BlkDel(id) ==
    /\ ~panic
    /\ \E r \in {del_block(State, id)} :
           /\ Install(r.st)
           /\ last' = [NoLast EXCEPT !.op = "del_block", !.err = r.err, !.id = id]
           /\ UNCHANGED <<ops, inodes, ref, given>>

BlkNext ==
    \/ BlkNew
    \/ \E id \in 1 .. NBITS : BlkDel(id)

SpecBlk == BlkInit /\ [][BlkNext]_vars

ClearBits(bm) == {k \in 0 .. NBITS - 1 : ~BitSet(bm, k)}

\* C1: a successful new_block returns k+1 for the smallest clear bitmap bit k of
\* the bitmap before the call, and sets exactly that bit.
C1_NewBlockLowestFree ==
    [][(last'.op = "new_block" /\ last'.err = "OK") =>
          /\ last'.val - 1 \in ClearBits(bitmap_block)
          /\ \A j \in ClearBits(bitmap_block) : last'.val - 1 <= j
          /\ ClearBits(bitmap_block') = ClearBits(bitmap_block) \ {last'.val - 1}]_vars

\* C1 witness: an allocation has refilled a gap below a block still allocated
\* (the "free 20 and 10, allocate, get 10" scenario).
C1_Witness ==
    /\ last.op = "new_block" /\ last.err = "OK"
    /\ \E j \in 0 .. NBITS - 1 : j > last.val /\ BitSet(bitmap_block, j)
    /\ \E j \in 0 .. NBITS - 1 : j > last.val /\ ~BitSet(bitmap_block, j)

\* ------------------------------------------------------------------------
\* SpecFile: the file manager driven through its public interface, as the
\* tests of file_mgr.rs drive it: init(), read_root_inode(), then any calls.
\* The caller holds the Rc of every Inode it has obtained.
\* ------------------------------------------------------------------------
WriteOffsets == {0, 5, BLOCK_SIZE, DIRECT_BLK_CNT * BLOCK_SIZE - 5}
WriteLens == {0, 5, 10, BLOCK_SIZE + 10}
TruncLens == {0, 5, BLOCK_SIZE, BLOCK_SIZE + 5, DIRECT_BLK_CNT * BLOCK_SIZE + 5}
ReadArgs == {<<0, 5>>, <<0, 200>>, <<5, 10>>, <<5, BLOCK_SIZE + 10>>, <<BLOCK_SIZE, BLOCK_SIZE>>}
Uids == {1, 2}

Addrs == 1 .. HEAP_SIZE

FileInit ==
    /\ \E r0 \in {FileMgrInit(FreshState, ~is_formatted(FreshState))} :
       \E r1 \in {read_root_inode(r0.st)} : Start(r1.st)
    /\ last = [NoLast EXCEPT !.op = "init"]
    /\ ops = 0
    /\ inodes = {1}
    /\ ref = [NoRef EXCEPT ![1] = NewRef]
    /\ given = NoGiven

Ready == ~panic /\ ops < MaxOps

FNewInode ==
    /\ Ready
    /\ FreeAddrs(State) # {}
    /\ \E r \in {new_inode(State)} :
       \E id \in {IF r.err = "OK" THEN r.st.heap[r.val].id ELSE 0} :
           /\ Install(r.st)
           /\ last' = [NoLast EXCEPT !.op = "new_inode", !.err = r.err, !.id = id,
                          !.id2 = r.val]
           /\ ops' = ops + 1
           /\ inodes' = IF r.err = "OK" THEN inodes \cup {id} ELSE inodes
           /\ ref' = IF r.err = "OK" THEN [ref EXCEPT ![id] = NewRef] ELSE ref
           /\ UNCHANGED given

FReadInode(id) ==
    /\ Ready
    /\ id \in inodes
    /\ FreeAddrs(State) # {}
    /\ \E r \in {read_inode(State, id)} :
           /\ Install(r.st)
           /\ last' = [NoLast EXCEPT !.op = "read_inode", !.err = r.err, !.id = id,
                          !.id2 = r.val]
           /\ ops' = ops + 1
           /\ UNCHANGED <<inodes, ref, given>>

FDrop(a) ==
    /\ Ready
    /\ Alive(State, a)
    /\ Install(DropRc(State, a))
    /\ last' = [NoLast EXCEPT !.op = "drop", !.id = heap[a].id, !.id2 = a]
    /\ ops' = ops + 1
    /\ UNCHANGED <<inodes, ref, given>>

FWrite(a, off, n) ==
    /\ Ready
    /\ Alive(State, a)
    /\ \E data \in {MkData(n, ops + 1)} :
       \E r \in {write_file(State, a, off, data)} :
           /\ Install(r.st)
           /\ last' = [NoLast EXCEPT !.op = "write_file", !.err = r.err, !.id = heap[a].id,
                          !.id2 = a, !.off = off, !.data = data, !.val = r.val]
           /\ ops' = ops + 1
           /\ ref' = IF r.err = "OK"
                     THEN [ref EXCEPT ![heap[a].id].bytes = RefWrite(@, off, data)]
                     ELSE [ref EXCEPT ![heap[a].id].valid = FALSE]
           /\ UNCHANGED <<inodes, given>>

FTruncate(a, len) ==
    /\ Ready
    /\ Alive(State, a)
    /\ \E r \in {truncate_file(State, a, len)} :
           /\ Install(r.st)
           /\ last' = [NoLast EXCEPT !.op = "truncate_file", !.err = r.err,
                          !.id = heap[a].id, !.id2 = a, !.off = len]
           /\ ops' = ops + 1
           /\ ref' = IF r.err = "OK"
                     THEN [ref EXCEPT ![heap[a].id].bytes = RefTruncate(@, len),
                                      ![heap[a].id].wonly = FALSE]
                     ELSE [ref EXCEPT ![heap[a].id].valid = FALSE]
           /\ UNCHANGED <<inodes, given>>

FRead(a, off, count) ==
    /\ Ready
    /\ Alive(State, a)
    /\ \E r \in {read_file(State, a, off, count)} :
           /\ Install(r.st)
           /\ last' = [NoLast EXCEPT !.op = "read_file", !.err = r.err, !.id = heap[a].id,
                          !.id2 = a, !.off = off, !.val = count,
                          !.out = IF r.err = "OK" THEN r.val ELSE <<>>]
           /\ ops' = ops + 1
           /\ UNCHANGED <<inodes, ref, given>>

FSetUid(a, v) ==
    /\ Ready
    /\ Alive(State, a)
    /\ Install(set_uid(State, a, v))
    /\ last' = [NoLast EXCEPT !.op = "set_uid", !.id = heap[a].id, !.id2 = a, !.val = v]
    /\ ops' = ops + 1
    /\ UNCHANGED <<inodes, ref, given>>

FFlush(a) ==
    /\ Ready
    /\ Alive(State, a)
    /\ \E r \in {FileMgrFlush(State, a)} :
           /\ Install(r.st)
           /\ last' = [NoLast EXCEPT !.op = "flush", !.err = r.err, !.id = heap[a].id,
                          !.id2 = a]
           /\ ops' = ops + 1
           /\ UNCHANGED <<inodes, ref, given>>

FileNext ==
    \/ FNewInode
    \/ \E id \in 1 .. NBITS : FReadInode(id)
    \/ \E a \in Addrs : FDrop(a)
    \/ \E a \in Addrs, off \in WriteOffsets, n \in WriteLens : FWrite(a, off, n)
    \/ \E a \in Addrs, len \in TruncLens : FTruncate(a, len)
    \/ \E a \in Addrs, args \in ReadArgs : FRead(a, args[1], args[2])
    \/ \E a \in Addrs, v \in Uids : FSetUid(a, v)
    \/ \E a \in Addrs : FFlush(a)

SpecFile == FileInit /\ [][FileNext]_vars

\* C2: right after a successful write_file(inode, o, D), read_file(inode, o, |D|)
\* returns exactly D.
C2_WriteReadRoundTrip ==
    (last.op = "write_file" /\ last.err = "OK") =>
        \E r \in {read_file(State, last.id2, last.off, Len(last.data))} :
            r.err = "OK" /\ r.val = last.data

\* C2 witness: the written range started inside one block, crossed a block
\* boundary and landed in a hole.
C2_Witness ==
    /\ last.op = "write_file" /\ last.err = "OK"
    /\ last.off % BLOCK_SIZE # 0
    /\ (last.off + Len(last.data)) \div BLOCK_SIZE > last.off \div BLOCK_SIZE
    /\ last.off > 0 /\ ref[last.id].valid /\ ref[last.id].bytes[last.off] = 0

\* C3: for an inode that has only been written (successfully), read_file(0, total)
\* equals the reference array: written bytes as written, holes as zeros.
C3_WritesMatchReference ==
    \A a \in Addrs :
        (Alive(State, a) /\ ref[heap[a].id].valid /\ ref[heap[a].id].wonly) =>
            \E r \in {read_file(State, a, 0, Len(ref[heap[a].id].bytes))} :
                r.err = "OK" /\ r.val = ref[heap[a].id].bytes

\* C3 witness: three writes have happened, each left some of its bytes, and a
\* hole remains below the file length.
C3_Witness ==
    \E a \in Addrs :
        /\ Alive(State, a) /\ ref[heap[a].id].valid /\ ref[heap[a].id].wonly
        /\ LET bytes == ref[heap[a].id].bytes
           IN  /\ \E k \in 1 .. Len(bytes) : bytes[k] = 0
               /\ \A tag \in 1 .. 3 :
                     \E k \in 1 .. Len(bytes) : bytes[k] \in Range(MkData(BLOCK_SIZE + 10, tag))

ReadCounts(n) == {n, n + 1, n + BLOCK_SIZE, 20 * BLOCK_SIZE}

\* C4: for an inode written and truncated in any order, read_file(0, count) for
\* any count >= length equals the reference array, on which a truncate cuts when
\* shrinking and pads with zeros when growing.
C4_TruncateMatchesReference ==
    \A a \in Addrs :
        (Alive(State, a) /\ ref[heap[a].id].valid) =>
            /\ length(heap[a]) = Len(ref[heap[a].id].bytes)
            /\ \A count \in ReadCounts(Len(ref[heap[a].id].bytes)) :
                  \E r \in {read_file(State, a, 0, count)} :
                      r.err = "OK" /\ r.val = ref[heap[a].id].bytes

\* C4 witness: a write of BLOCK_SIZE + 10 bytes, a truncate down to
\* BLOCK_SIZE + 5 and a truncate up: the cut bytes are zeros.
C4_Witness ==
    /\ last.op = "truncate_file" /\ last.err = "OK"
    /\ ref[last.id].valid
    /\ LET bytes == ref[last.id].bytes
       IN  /\ Len(bytes) > BLOCK_SIZE + 10
           /\ bytes[BLOCK_SIZE + 5] = MkData(BLOCK_SIZE + 10, 1)[BLOCK_SIZE + 5]
           /\ bytes[BLOCK_SIZE + 6] = 0

\* C5: two Inode objects alive in memory never have the same id, read_inode of
\* an id that is open returns the object that is open, and a value set through
\* one holder is what every holder of that id reads.
C5_CacheStrict ==
    /\ \A a, b \in Addrs :
          (Alive(State, a) /\ Alive(State, b) /\ heap[a].id = heap[b].id) => a = b
    /\ \A a \in Addrs :
          Alive(State, a) =>
              \E r \in {read_inode(State, heap[a].id)} : r.err = "OK" /\ r.val = a
    /\ last.op = "set_uid" =>
          \A a \in Addrs : (Alive(State, a) /\ heap[a].id = last.id) => uid(heap[a]) = last.val

\* C5 witness: the inode was opened twice and a uid was set through it.
C5_Witness ==
    /\ last.op = "set_uid"
    /\ heap[last.id2].rc >= 2

\* the inode block of id as it is on the device, decoded as Inode::new does
DiskInode(st, id) ==
    LET data == BlockIORead(st, id + 1)
        ind == data[BLOCK_SIZE - INDEX_SIZE + 1]
    IN  [id |-> id, dirty |-> FALSE, data |-> data,
         indirect |-> IF ind # 0 /\ ind <= NBITS THEN <<BlockIORead(st, ind + 1)>> ELSE <<>>,
         rc |-> 0]

BlockCnt(len) == (len + BLOCK_SIZE - 1) \div BLOCK_SIZE

SlotsAllocated(st, ino) ==
    \A i \in 0 .. BlockCnt(length(ino)) - 1 :
        LET id == data_block(ino, i)
        IN  id # 0 => (id <= NBITS /\ BitSet(st.bitmap_block, id - 1))

\* C8: for every live inode, on the device and in memory, each non-zero slot
\* below ceil(length / BLOCK_SIZE) names a block whose bitmap bit is set.
C8_ActiveSlotsAllocated ==
    /\ \A id \in inodes : \E ino \in {DiskInode(State, id)} : SlotsAllocated(State, ino)
    /\ \A a \in Addrs : Alive(State, a) => SlotsAllocated(State, heap[a])

\* C8 witness: a truncate has freed a block of a file that still has an
\* allocated block in an active slot.
C8_Witness ==
    /\ last.op = "truncate_file" /\ last.err = "OK"
    /\ ops >= 3
    /\ \E i \in 0 .. BlockCnt(length(heap[last.id2])) - 1 : data_block(heap[last.id2], i) # 0
    /\ \E i \in 0 .. BlockCnt(length(heap[last.id2])) - 1 : data_block(heap[last.id2], i) = 0

\* ------------------------------------------------------------------------
\* The namespace as the program sees it: an inode is read through the cache
\* when it is cached, from the device otherwise; its bytes are read slot by
\* slot without the bitmap assertion of read_block.
\* ------------------------------------------------------------------------
View(st, id) ==
    IF st.inode_table[id] # 0 THEN st.heap[st.inode_table[id]] ELSE DiskInode(st, id)

RawByte(st, ino, k) ==
    LET id == data_block(ino, (k - 1) \div BLOCK_SIZE)
    IN  IF id < 1 \/ id > NBITS THEN 0
        ELSE BlockIORead(st, id + 1)[((k - 1) % BLOCK_SIZE) + 1]

\* entry j (from 1) of the directory content of ino: [idx, ino, name]
DirItem(st, ino, j) ==
    Bind([k \in 1 .. DIR_ITEM_SIZE |-> RawByte(st, ino, (j - 1) * DIR_ITEM_SIZE + k)],
         LAMBDA item :
           IF ParsePanics(item) THEN [idx |-> j, ino |-> item[1], name |-> <<>>]
           ELSE [idx |-> j, ino |-> parse_dir_item(item).ino,
                 name |-> parse_dir_item(item).name])

\* the entries of directory id
Entries(st, id) ==
    Bind(View(st, id), LAMBDA ino :
      {DirItem(st, ino, j) : j \in 1 .. Min(length(ino) \div DIR_ITEM_SIZE, 2 * NBITS)})

IsDir(st, id) == id \in 1 .. NBITS /\ kind(View(st, id)) = "Directory"

EntryNames(st, id) == {e.name : e \in Entries(st, id)}

\* the entries of directory id other than "." and ".."
Children(st, id) == {e \in Entries(st, id) : e.name \notin {DOT, DOTDOT}}

\* the inode that name resolves to in directory id: its first entry of that name
EntryIno(st, id, name) ==
    Bind({e \in Entries(st, id) : e.name = name}, LAMBDA es :
      (CHOOSE e \in es : \A f \in es : e.idx <= f.idx).ino)

RECURSIVE DirsFrom(_, _, _)
DirsFrom(st, seen, frontier) ==
    IF frontier = {} THEN seen
    ELSE Bind({e.ino : e \in UNION {Children(st, d) : d \in frontier}}, LAMBDA next :
           Bind({i \in next : IsDir(st, i)} \ (seen \cup frontier), LAMBDA dirs :
             Bind(seen \cup frontier, LAMBDA seen2 : DirsFrom(st, seen2, dirs))))

\* the directories reachable from the root by name
ReachDirs(st) == DirsFrom(st, {}, {1})

\* every entry of a reachable directory, "." and ".." included: [dir, idx, ino, name]
ReachEntries(st) ==
    UNION {{[dir |-> d, idx |-> e.idx, ino |-> e.ino, name |-> e.name] : e \in Entries(st, d)} :
              d \in ReachDirs(st)}

\* the inodes that are not directories and have a name
ReachFiles(st) ==
    {e.ino : e \in {x \in ReachEntries(st) : x.name \notin {DOT, DOTDOT} /\ ~IsDir(st, x.ino)}}

\* the number of open handles on inode id: the strong count of its Inode
\* between two requests
Handles(st, id) ==
    IF st.inode_table[id] = 0 THEN 0 ELSE st.heap[st.inode_table[id]].rc

\* ------------------------------------------------------------------------
\* Spec: the mounted filesystem, driven by the requests the kernel sends.  The
\* kernel resolves paths itself: a parent is a directory it reached by name, a
\* new name does not exist yet, "." and ".." are never passed, unlink is sent
\* for non-directories and rmdir for directories, rename never moves a
\* directory under itself nor over an entry of another kind.
\* ------------------------------------------------------------------------
Names == {<<97>>, <<98>>}
Targets == {<<47, 97>>}
FsWrites == {<<0, 5>>}
\* 0o755 and 0o644
DIR_MODE == 7 * 64 + 5 * 8 + 5
FILE_MODE == 6 * 64 + 4 * 8 + 4

INIT_REQ == [uid |-> 0, gid |-> 0]
USER_REQ == [uid |-> 1000, gid |-> 1000]

FsInit ==
    /\ \E r \in {init_impl(FreshState, INIT_REQ)} : Start(r.st)
    /\ last = [NoLast EXCEPT !.op = "init"]
    /\ ops = 0
    /\ inodes = {1}
    /\ ref = NoRef
    /\ given = NoGiven

FsLive == ~panic /\ ops < MaxFsOps

\* a request may need three Inode objects besides the open ones
FsReady == FsLive /\ Cardinality(FreeAddrs(State)) >= 3

\* after a request: the ids created and not freed since
Track(r, created) ==
    /\ inodes' = {i \in inodes \cup created : BitSet(r.st.bitmap_block, i - 1)}
    /\ ops' = ops + 1
    /\ UNCHANGED <<ref, given>>

FsMkdir(parent, name) ==
    /\ FsReady
    /\ \E r \in {mkdir(State, USER_REQ, parent, name, DIR_MODE)} :
           /\ Install(r.st)
           /\ last' = [NoLast EXCEPT !.op = "mkdir", !.err = r.err, !.id = parent,
                          !.name = name, !.val = r.val]
           /\ Track(r, IF r.err = "OK" THEN {r.val} ELSE {})

FsCreate(parent, name) ==
    /\ FsReady
    /\ \E r \in {create(State, USER_REQ, parent, name, FILE_MODE, O_RDWR)} :
       \E id \in {IF r.err = "OK" THEN r.st.heap[r.val].id ELSE 0} :
           /\ Install(r.st)
           /\ last' = [NoLast EXCEPT !.op = "create", !.err = r.err, !.id = parent,
                          !.name = name, !.id2 = r.val, !.val = id]
           /\ Track(r, IF r.err = "OK" THEN {id} ELSE {})

FsSymlink(parent, name, target) ==
    /\ FsReady
    /\ \E r \in {symlink(State, USER_REQ, parent, name, target)} :
           /\ Install(r.st)
           /\ last' = [NoLast EXCEPT !.op = "symlink", !.err = r.err, !.id = parent,
                          !.name = name, !.data = target, !.val = r.val]
           /\ Track(r, IF r.err = "OK" THEN {r.val} ELSE {})

FsLink(_ino, newparent, newname) ==
    /\ FsReady
    /\ \E r \in {link(State, USER_REQ, _ino, newparent, newname)} :
           /\ Install(r.st)
           /\ last' = [NoLast EXCEPT !.op = "link", !.err = r.err, !.id = newparent,
                          !.name = newname, !.id2 = _ino]
           /\ Track(r, {})

FsUnlink(parent, name) ==
    /\ FsReady
    /\ ~IsDir(State, EntryIno(State, parent, name))
    /\ \E r \in {unlink(State, USER_REQ, parent, name)} :
           /\ Install(r.st)
           /\ last' = [NoLast EXCEPT !.op = "unlink", !.err = r.err, !.id = parent,
                          !.name = name, !.id2 = EntryIno(State, parent, name)]
           /\ Track(r, {})

FsRmdir(parent, name) ==
    /\ FsReady
    /\ IsDir(State, EntryIno(State, parent, name))
    /\ \E r \in {rmdir(State, USER_REQ, parent, name)} :
           /\ Install(r.st)
           /\ last' = [NoLast EXCEPT !.op = "rmdir", !.err = r.err, !.id = parent,
                          !.name = name, !.id2 = EntryIno(State, parent, name)]
           /\ Track(r, {})

\* the names the kernel lets the entry of inode src take in newparent
RenameTargets(st, src, newparent) ==
    IF IsDir(st, src) /\ newparent \in DirsFrom(st, {}, {src}) THEN {}
    ELSE {m \in Names :
            m \in EntryNames(st, newparent) =>
                /\ EntryIno(st, newparent, m) # src
                /\ IsDir(st, EntryIno(st, newparent, m)) = IsDir(st, src)}

FsRename(parent, name, newparent, newname) ==
    /\ FsReady
    /\ \E r \in {rename(State, USER_REQ, parent, name, newparent, newname)} :
           /\ Install(r.st)
           /\ last' = [NoLast EXCEPT !.op = "rename", !.err = r.err, !.id = parent,
                          !.name = name, !.id2 = newparent, !.name2 = newname,
                          !.val = EntryIno(State, parent, name)]
           /\ Track(r, {})

FsOpen(_ino) ==
    /\ FsReady
    /\ \E r \in {open(State, USER_REQ, _ino, O_RDWR)} :
           /\ Install(r.st)
           /\ last' = [NoLast EXCEPT !.op = "open", !.err = r.err, !.id = _ino, !.id2 = r.val]
           /\ Track(r, {})

FsOpendir(_ino) ==
    /\ FsReady
    /\ \E r \in {opendir(State, USER_REQ, _ino, O_RDONLY)} :
           /\ Install(r.st)
           /\ last' = [NoLast EXCEPT !.op = "opendir", !.err = r.err, !.id = _ino,
                          !.id2 = r.val]
           /\ Track(r, {})

FsWrite(_fh, off, n) ==
    /\ FsLive
    /\ Alive(State, _fh) /\ kind(heap[_fh]) = "RegularFile"
    /\ \E data \in {MkData(n, ops + 1)} :
       \E r \in {write(State, USER_REQ, _fh, off, data)} :
           /\ Install(r.st)
           /\ last' = [NoLast EXCEPT !.op = "write", !.err = r.err, !.id = heap[_fh].id,
                          !.id2 = _fh, !.off = off, !.data = data, !.val = r.val]
           /\ Track(r, {})

FsRelease(_fh) ==
    /\ FsLive
    /\ Alive(State, _fh) /\ kind(heap[_fh]) # "Directory"
    /\ \E r \in {release(State, _fh)} :
           /\ Install(r.st)
           /\ last' = [NoLast EXCEPT !.op = "release", !.err = r.err, !.id = heap[_fh].id,
                          !.id2 = _fh]
           /\ Track(r, {})

FsReleasedir(_fh) ==
    /\ FsLive
    /\ Alive(State, _fh) /\ kind(heap[_fh]) = "Directory"
    /\ \E r \in {releasedir(State, _fh)} :
           /\ Install(r.st)
           /\ last' = [NoLast EXCEPT !.op = "releasedir", !.err = r.err, !.id = heap[_fh].id,
                          !.id2 = _fh]
           /\ Track(r, {})

Next ==
    \/ \E p \in ReachDirs(State) : \E n \in Names \ EntryNames(State, p) : FsMkdir(p, n)
    \/ \E p \in ReachDirs(State) : \E n \in Names \ EntryNames(State, p) : FsCreate(p, n)
    \/ \E p \in ReachDirs(State) : \E n \in Names \ EntryNames(State, p) :
          \E t \in Targets : FsSymlink(p, n, t)
    \/ \E i \in ReachFiles(State) : \E q \in ReachDirs(State) :
          \E m \in Names \ EntryNames(State, q) : FsLink(i, q, m)
    \/ \E p \in ReachDirs(State) : \E e \in Children(State, p) : FsUnlink(p, e.name)
    \/ \E p \in ReachDirs(State) : \E e \in Children(State, p) : FsRmdir(p, e.name)
    \/ \E p \in ReachDirs(State) : \E e \in Children(State, p) : \E q \in ReachDirs(State) :
          \E m \in RenameTargets(State, e.ino, q) : FsRename(p, e.name, q, m)
    \/ \E i \in ReachFiles(State) : FsOpen(i)
    \/ \E i \in ReachDirs(State) : FsOpendir(i)
    \/ \E a \in Addrs : \E w \in FsWrites : FsWrite(a, w[1], w[2])
    \/ \E a \in Addrs : FsRelease(a)
    \/ \E a \in Addrs : FsReleasedir(a)

Spec == FsInit /\ [][Next]_vars

\* the inode ids named by an entry of a reachable directory, and the root
ReachIds(st) == ({1} \cup {e.ino : e \in ReachEntries(st)}) \cap (1 .. NBITS)

\* the blocks an inode's table lists: its slots and its indirect block
TableBlocks(ino) ==
    ({data_block(ino, i) : i \in 0 .. DIRECT_BLK_CNT + INDIRECT_BLK_CNT - 1}
        \cup {indirect_id(ino)}) \ {0}

\* the blocks owned by the inodes the namespace references
OwnedBlocks(st) ==
    Bind(ReachIds(st), LAMBDA live :
      live \cup UNION {TableBlocks(View(st, i)) : i \in live})

\* C6: after every completed request a bitmap bit is set if and only if its
\* block is the inode block of an inode the namespace references or a block
\* listed in the table of such an inode.
C6_BitmapMatchesOwnership ==
    \E owned \in {OwnedBlocks(State)} :
        \A k \in 1 .. NBITS : BitSet(bitmap_block, k - 1) <=> k \in owned

\* C7: every inode id in an entry of a directory reachable from the root has
\* its bitmap bit set.
C7_EntriesNameAllocatedInodes ==
    \A e \in ReachEntries(State) :
        e.ino \in 1 .. NBITS /\ BitSet(bitmap_block, e.ino - 1)

\* C9: after every completed request the nlink of each inode that is not a
\* directory equals the number of directory entries naming it plus the number
\* of open handles on it, and an inode with an open handle is not deallocated.
C9_NlinkCountsEntriesAndHandles ==
    \E es \in {ReachEntries(State)} :
        /\ \A i \in ReachFiles(State) :
              nlink(View(State, i)) = Cardinality({e \in es : e.ino = i}) + Handles(State, i)
        /\ \A i \in 1 .. NBITS : Handles(State, i) > 0 => BitSet(bitmap_block, i - 1)

\* directory d has a whole number of entries, "." naming d first and ".."
\* naming parent second
WellFormedDir(st, d, parent) ==
    \E ino \in {View(st, d)} : \E es \in {Entries(st, d)} :
        /\ length(ino) % DIR_ITEM_SIZE = 0
        /\ [idx |-> 1, ino |-> d, name |-> DOT] \in es
        /\ [idx |-> 2, ino |-> parent, name |-> DOTDOT] \in es

\* C10: every directory has a length that is a multiple of DIR_ITEM_SIZE, and
\* its entries 0 and 1 are "." naming itself and ".." naming its parent (the
\* root itself for the root).
C10_DotAndDotDotFirst ==
    /\ WellFormedDir(State, 1, 1)
    /\ \A p \in ReachDirs(State) : \A e \in Children(State, p) :
          IsDir(State, e.ino) => WellFormedDir(State, e.ino, p)


\* ------------------------------------------------------------------------
\* The mounted filesystem under names and targets that are not UTF-8.  A name
\* is new when the lookup the kernel makes before the request finds nothing;
\* the names of removals and of rename sources are names readdir shows.
\* ------------------------------------------------------------------------
EncNames == {<<97>>, <<255>>}
EncTargets == {<<47, 255>>}

\* the names a lookup in directory id does not find
EncNewNames(st, id) == EncNames \ EntryNames(st, id)

\* the names the kernel lets the entry of inode src take in newparent
EncRenameTargets(st, src, newparent) ==
    IF IsDir(st, src) /\ newparent \in DirsFrom(st, {}, {src}) THEN {}
    ELSE {m \in EncNames :
            m \in EntryNames(st, newparent) =>
                /\ EntryIno(st, newparent, m) # src
                /\ IsDir(st, EntryIno(st, newparent, m)) = IsDir(st, src)}

EncNext ==
    \/ \E p \in ReachDirs(State) : \E n \in EncNewNames(State, p) : FsMkdir(p, n)
    \/ \E p \in ReachDirs(State) : \E n \in EncNewNames(State, p) : FsCreate(p, n)
    \/ \E p \in ReachDirs(State) : \E n \in EncNewNames(State, p) :
          \E t \in EncTargets : FsSymlink(p, n, t)
    \/ \E i \in ReachFiles(State) : \E q \in ReachDirs(State) :
          \E m \in EncNewNames(State, q) : FsLink(i, q, m)
    \/ \E p \in ReachDirs(State) : \E e \in Children(State, p) : FsUnlink(p, e.name)
    \/ \E p \in ReachDirs(State) : \E e \in Children(State, p) : FsRmdir(p, e.name)
    \/ \E p \in ReachDirs(State) : \E e \in Children(State, p) : \E q \in ReachDirs(State) :
          \E m \in EncRenameTargets(State, e.ino, q) : FsRename(p, e.name, q, m)
    \/ \E a \in Addrs : FsRelease(a)

SpecEnc == FsInit /\ [][EncNext]_vars

\* ------------------------------------------------------------------------
\* Lookups after the requests that change a directory
\* ------------------------------------------------------------------------
\* C11: after a successful unlink or rmdir of name in parent, a lookup of
\* that name in that parent fails with ENOENT.
C11_RemovedNameNotFound ==
    (last.op \in {"unlink", "rmdir"} /\ last.err = "OK") =>
        \E r \in {lookup(State, USER_REQ, last.id, last.name)} : r.err = "ENOENT"


\* C12: after a successful mkdir, create, symlink or link that adds name to
\* parent, a lookup of that name in that parent succeeds and returns the id
\* of the inode just created or linked.
C12_AddedNameFound ==
    (last.op \in {"mkdir", "create", "symlink", "link"} /\ last.err = "OK") =>
        \E r \in {lookup(State, USER_REQ, last.id, last.name)} :
            /\ r.err = "OK"
            /\ r.val = (IF last.op = "link" THEN last.id2 ELSE last.val)


\* C13: rmdir (unlink_impl) of a directory longer than its "." and ".."
\* entries fails with ENOTEMPTY and leaves the device, the bitmap, the Inode
\* objects and the cache as they were (so the parent's entries and the
\* target's nlink too); rmdir of a directory of exactly those two entries
\* succeeds: the parent loses one entry and the inode block is freed.
C13_RmdirStep ==
    last'.op = "rmdir" =>
        \E len \in {length(View(State, last'.id2))} :
            /\ len > 2 * DIR_ITEM_SIZE =>
                   /\ last'.err = "ENOTEMPTY"
                   /\ UNCHANGED <<blocks, bitmap_block, heap, inode_table, panic>>
            /\ len = 2 * DIR_ITEM_SIZE =>
                   /\ last'.err = "OK"
                   /\ ~BitSet(bitmap_block', last'.id2 - 1)
                   /\ length(View(State', last'.id))
                          = length(View(State, last'.id)) - DIR_ITEM_SIZE

C13_NotEmptyRefused == [][C13_RmdirStep]_vars

\* an rmdir was refused while the directory is held open
C13_Witness ==
    /\ last.op = "rmdir" /\ last.err = "ENOTEMPTY"
    /\ Children(State, last.id2) # {}
    /\ \E a \in Addrs : Alive(State, a) /\ heap[a].id = last.id2


\* ------------------------------------------------------------------------
\* Running out of space
\* ------------------------------------------------------------------------
\* C14: new_block fails with ENOSPC exactly when no bit of the bitmap is
\* clear, and then neither the bitmap in memory nor any block of the device
\* (the bitmap block among them) changes; with a clear bit it succeeds.
C14_NewBlockStep ==
    last'.op = "new_block" =>
        /\ last'.err \in {"OK", "ENOSPC"}
        /\ last'.err = "ENOSPC" <=> ClearBits(bitmap_block) = {}
        /\ last'.err = "ENOSPC" => UNCHANGED <<bitmap_block, blocks, panic>>

C14_NoSpaceIffFull == [][C14_NewBlockStep]_vars

\* new_block was refused on a full bitmap
C14_Witness ==
    /\ last.op = "new_block" /\ last.err = "ENOSPC"
    /\ ClearBits(bitmap_block) = {}
    /\ BlockIORead(State, 1) = bitmap_block

\* new_inode n times, each Rc dropped at once: n inode blocks taken
RECURSIVE FillInodes(_, _)
FillInodes(st, n) ==
    IF n = 0 THEN st
    ELSE Bind(new_inode(st), LAMBDA r :
           IF r.err # "OK" THEN r.st ELSE FillInodes(DropRc(r.st, r.val), n - 1))

\* the blocks left free when the writes start
FreeCounts == {0, 1, 2}

\* a file manager whose device is nearly full of inodes, the root held open
FullInit ==
    /\ \E free \in FreeCounts :
       \E r0 \in {FileMgrInit(FreshState, ~is_formatted(FreshState))} :
       \E s1 \in {FillInodes(r0.st, Cardinality(ClearBits(r0.st.bitmap_block)) - free)} :
       \E r2 \in {read_root_inode(s1)} :
           /\ Start(r2.st)
           /\ inodes = {i \in 1 .. NBITS : BitSet(s1.bitmap_block, i - 1)} \ {0}
           /\ ref = [i \in 1 .. NBITS |->
                        IF BitSet(s1.bitmap_block, i - 1) THEN NewRef ELSE NoRef[i]]
    /\ last = [NoLast EXCEPT !.op = "init"]
    /\ ops = 0
    /\ given = NoGiven

\* the file manager's operations, the Inode setters left out: only the core
\* operations dirty an Inode
FullNext ==
    \/ FNewInode
    \/ \E id \in 1 .. NBITS : FReadInode(id)
    \/ \E a \in Addrs : FDrop(a)
    \/ \E a \in Addrs, off \in WriteOffsets, n \in WriteLens : FWrite(a, off, n)
    \/ \E a \in Addrs, len \in TruncLens : FTruncate(a, len)
    \/ \E a \in Addrs, args \in ReadArgs : FRead(a, args[1], args[2])
    \/ \E a \in Addrs : FFlush(a)

SpecFull == FullInit /\ [][FullNext]_vars

\* C15: when write_file returns ENOSPC after part of the data was written
\* (the length has advanced), the inode has been flushed: it is clean and
\* the length stored on the device is the advanced length.
C15_NoSpaceStep ==
    (/\ last'.op = "write_file" /\ last'.err = "ENOSPC"
     /\ length(heap'[last'.id2]) > length(heap[last'.id2])) =>
        /\ ~heap'[last'.id2].dirty
        /\ length(DiskInode(State', last'.id)) = length(heap'[last'.id2])

C15_NoSpaceWriteFlushed == [][C15_NoSpaceStep]_vars

\* C16: no Inode object is dropped while its dirty flag is set: the
\* assertion of Inode's drop holds after every sequence of core operations.
C16_NeverDroppedDirty == last.op = "drop" => ~panic

\* ------------------------------------------------------------------------
\* read_file and write_file by the numbers
\* ------------------------------------------------------------------------
\* C17: read_file returns no byte for an offset at or past the length and
\* otherwise exactly min(length, offset + count) - offset bytes, and leaves
\* the inode, the bitmap and every block as they were.
C17_ReadStep ==
    last'.op = "read_file" =>
        \E len \in {length(heap[last'.id2])} :
            /\ last'.err = "OK"
            /\ Len(last'.out) = (IF last'.off >= len THEN 0
                                 ELSE IF last'.off + last'.val < len THEN last'.val
                                 ELSE len - last'.off)
            /\ UNCHANGED <<blocks, bitmap_block, heap, inode_table, panic>>

C17_ReadFileBounded == [][C17_ReadStep]_vars

\* a read_file with a count past the end of a file of more than one block
\* returned the bytes up to the length
C17_Witness ==
    /\ last.op = "read_file" /\ last.err = "OK" /\ last.off = 0 /\ last.val = 200
    /\ length(heap[last.id2]) > BLOCK_SIZE
    /\ Len(last.out) = length(heap[last.id2])

\* the metadata cells of an inode block other than the length
OtherMetadata(ino) ==
    [k \in (GENERATION_OFF + 1 .. INDEX_OFF) \ {LENGTH_OFF + 1} |-> ino.data[k]]

\* C18: a successful write_file returns the number of bytes it was given and
\* leaves the length at max(old length, offset + that number); the length
\* never shrinks and the other metadata fields keep their values.
C18_WriteStep ==
    (last'.op = "write_file" /\ last'.err = "OK") =>
        \E old \in {heap[last'.id2]} :
        \E new \in {heap'[last'.id2]} :
            /\ last'.val = Len(last'.data)
            /\ length(new) = Max(length(old), last'.off + Len(last'.data))
            /\ length(new) >= length(old)
            /\ OtherMetadata(new) = OtherMetadata(old)

C18_WriteLength == [][C18_WriteStep]_vars

\* a write that ended below the length of a file of more than one block
C18_Witness ==
    /\ last.op = "write_file" /\ last.err = "OK" /\ last.val = 10
    /\ last.off + Len(last.data) < length(heap[last.id2])
    /\ length(heap[last.id2]) > BLOCK_SIZE

\* ------------------------------------------------------------------------
\* rename, symlink and readlink
\* ------------------------------------------------------------------------
\* C19: after a successful rename, a lookup of (newparent, newname) returns
\* the id that (parent, name) named before, newname is stored once in
\* newparent (what it named before is gone), a lookup of (parent, name) fails
\* with ENOENT unless it is the same place, and the nlink of every allocated
\* inode is what it was; the two parents may be the same directory.
C19_RenameStep ==
    (last'.op = "rename" /\ last'.err = "OK") =>
        /\ \E r \in {lookup(State', USER_REQ, last'.id2, last'.name2)} :
               r.err = "OK" /\ r.val = last'.val
        /\ Cardinality({e \in Entries(State', last'.id2) : e.name = last'.name2}) = 1
        /\ (last'.id # last'.id2 \/ last'.name # last'.name2) =>
               \E r \in {lookup(State', USER_REQ, last'.id, last'.name)} : r.err = "ENOENT"
        /\ \A i \in 1 .. NBITS :
               BitSet(bitmap_block, i - 1) =>
                   nlink(View(State', i)) = nlink(View(State, i))

C19_RenameMoves == [][C19_RenameStep]_vars


\* C20: after a successful symlink the new inode is a symlink of permission
\* bits 0777 whose length is the number of bytes of the target, and readlink
\* on it returns exactly the target's bytes.
C20_SymlinkRoundTrip ==
    (last.op = "symlink" /\ last.err = "OK") =>
        \E ino \in {View(State, last.val)} :
        \E r \in {readlink(State, USER_REQ, last.val)} :
            /\ kind(ino) = "Symlink"
            /\ perm(ino) = 7 * 64 + 7 * 8 + 7
            /\ length(ino) = Len(last.data)
            /\ r.err = "OK"
            /\ r.val = last.data

\* ------------------------------------------------------------------------
\* check_perm over requests, inodes and flags
\* ------------------------------------------------------------------------
PermIds == {0, 1000}
PermModes == {S_IFREG + p : p \in 0 .. 511} \cup {S_IFDIR + 2048 + 7 * 64}
\* the three access modes, O_ACCMODE itself, and access modes under O_CREAT
PermFlags == {O_RDONLY, O_WRONLY, O_RDWR, O_ACCMODE, 64 + O_WRONLY, 64 + O_RDWR}

\* an Inode of the given mode and owner
PermInode(md, u, g) ==
    [NoInode EXCEPT !.id = 1, !.rc = 1,
                    !.data[MODE_OFF + 1] = md, !.data[UID_OFF + 1] = u,
                    !.data[GID_OFF + 1] = g]

PermInit ==
    /\ Start(FreshState)
    /\ last = NoLast
    /\ ops = 0
    /\ inodes = {}
    /\ ref = NoRef
    /\ given = NoGiven

\* one call of check_perm; last keeps the arguments and the result
PermCheck(ru, rg, md, u, g, flags) ==
    /\ ops' = 1
    /\ last' = [NoLast EXCEPT !.op = "check_perm",
                   !.err = check_perm([uid |-> ru, gid |-> rg], PermInode(md, u, g), flags),
                   !.id = ru, !.id2 = rg, !.val = md, !.data = <<u, g>>, !.off = flags]
    /\ UNCHANGED <<blocks, bitmap_block, heap, inode_table, panic, inodes, ref, given>>

\* one call per run
PermNext ==
    /\ ops = 0
    /\ \E ru \in PermIds, rg \in PermIds, md \in PermModes, u \in PermIds, g \in PermIds,
          flags \in PermFlags : PermCheck(ru, rg, md, u, g, flags)

SpecPerm == PermInit /\ [][PermNext]_vars

\* bit b (a power of two) of p, by remainder
HasBit(p, b) == (p % (2 * b)) >= b

\* the class rule of the permission bits: owner, group or others
Permitted(ru, rg, u, g, p, ubit, gbit, obit) ==
    \/ ru = u /\ HasBit(p, ubit)
    \/ rg = g /\ HasBit(p, gbit)
    \/ HasBit(p, obit)

\* C21: check_perm fails with EPERM exactly when the access mode reads and
\* reading is not permitted, or the access mode writes and writing is not
\* permitted (owner, group and others bits 0400/0040/0004 and 0200/0020/0002
\* of the low nine mode bits); it is Ok otherwise.
C21_CheckPermRule ==
    last.op = "check_perm" =>
        \E acc \in {last.off % 4} :
        \E p \in {last.val % 4096} :
        \E rd \in {Permitted(last.id, last.id2, last.data[1], last.data[2], p, 256, 32, 4)} :
        \E wr \in {Permitted(last.id, last.id2, last.data[1], last.data[2], p, 128, 16, 2)} :
            /\ last.err \in {"OK", "EPERM"}
            /\ last.err = "EPERM" <=>
                   \/ acc \in {0, 2} /\ ~rd
                   \/ acc \in {1, 2} /\ ~wr

\* O_RDWR was refused to a group member who may read but not write
C21_Witness ==
    /\ last.op = "check_perm" /\ last.err = "EPERM" /\ last.off = O_RDWR
    /\ last.id # last.data[1] /\ last.id2 = last.data[2]
    /\ last.val = S_IFREG + 6 * 64 + 4 * 8

\* ------------------------------------------------------------------------
\* SpecReuse: the file manager with inodes deleted and their ids allocated
\* again.  del_inode takes &Inode: its caller holds an Rc, which goes at the
\* end of the caller (unlink_impl) unless an open handle holds another.
\* ------------------------------------------------------------------------
RNewInode ==
    /\ Ready
    /\ FreeAddrs(State) # {}
    /\ \E r \in {new_inode(State)} :
       \E id \in {IF r.err = "OK" THEN r.st.heap[r.val].id ELSE 0} :
           /\ Install(r.st)
           /\ last' = [NoLast EXCEPT !.op = "new_inode", !.err = r.err, !.id = id,
                          !.id2 = r.val,
                          !.val = IF r.err = "OK" THEN generation(r.st.heap[r.val]) ELSE 0]
           /\ ops' = ops + 1
           /\ inodes' = IF r.err = "OK" THEN inodes \cup {id} ELSE inodes
           /\ ref' = IF r.err = "OK" THEN [ref EXCEPT ![id] = NewRef] ELSE ref
           /\ given' = IF r.err = "OK"
                       THEN [given EXCEPT ![id] = Append(@, generation(r.st.heap[r.val]))]
                       ELSE given

\* del_inode(&inode), after which the caller drops its Rc (keep = FALSE) or
\* holds it on (keep = TRUE)
RDelInode(a, keep) ==
    /\ Ready
    /\ Alive(State, a)
    /\ heap[a].id # 1
    /\ heap[a].id \in inodes
    /\ \E r \in {del_inode(State, a)} :
           /\ Install(IF keep THEN r.st ELSE DropRc(r.st, a))
           /\ last' = [NoLast EXCEPT !.op = "del_inode", !.err = r.err, !.id = heap[a].id,
                          !.id2 = a, !.val = IF keep THEN 1 ELSE 0]
           /\ ops' = ops + 1
           /\ inodes' = inodes \ {heap[a].id}
           /\ UNCHANGED <<ref, given>>

ReuseNext ==
    \/ RNewInode
    \/ \E a \in Addrs, keep \in BOOLEAN : RDelInode(a, keep)
    \/ \E a \in Addrs : FDrop(a)
    \/ \E a \in Addrs, off \in WriteOffsets, n \in WriteLens : FWrite(a, off, n)
    \/ \E a \in Addrs, len \in TruncLens : FTruncate(a, len)
    \/ \E a \in Addrs, v \in Uids : FSetUid(a, v)
    \/ \E a \in Addrs : FFlush(a)

SpecReuse == FileInit /\ [][ReuseNext]_vars

\* C22: each new_inode that returns an id returns it with the generation one
\* more (modulo the width of the field) than the generation the id had at its
\* previous allocation, so no (id, generation) pair is handed out twice
C22_GenerationAdvances ==
    \A id \in 1 .. NBITS : \A k \in 1 .. Len(given[id]) - 1 :
        /\ given[id][k + 1] = (given[id][k] + 1) % GEN_MOD
        /\ \A j \in 1 .. k : given[id][j] # given[id][k + 1]

\* C27: the Inode a successful new_inode returns is fresh: every cell but the
\* generation is zero (length, times, mode, nlink, uid, gid, every slot), it has
\* no indirect block, and it equals the inode block as it is on the device;
\* also for an id that an earlier, deleted inode had.
C27_NewInodeFresh ==
    [][(last'.op = "new_inode" /\ last'.err = "OK") =>
          \E ino \in {heap'[last'.id2]} :
              /\ ino.id = last'.id
              /\ \A k \in 1 .. BLOCK_SIZE : k # GENERATION_OFF + 1 => ino.data[k] = 0
              /\ ino.indirect = <<>>
              /\ ino.data = blocks'[ino.id + 2]]_vars

\* ------------------------------------------------------------------------
\* write_dir_item and lookup on the directories of the namespace
\* ------------------------------------------------------------------------
\* the names given to write_dir_item: within MAX_NAME_LEN, at it, beyond it
ItemNames == EncNames \cup {<<97, 98>>, <<97, 98, 99>>}

\* C23: write_dir_item fails with ENAMETOOLONG exactly when the name is longer
\* than MAX_NAME_LEN as UTF-8, and then leaves the parent's length and
\* content as they were; when it succeeds the parent is one record longer, the
\* entries before the new one are unchanged, and the new record decodes
\* (parse_dir_item) to the child id and the name given.
C23_WriteDirItem ==
    (~panic /\ FreeAddrs(State) # {}) =>
        \A d \in ReachDirs(State) : \A n \in ItemNames :
            \E r0 \in {read_inode(State, d)} :
            \E r \in {write_dir_item(r0.st, 2, r0.val, n)} :
            \E cnt \in {length(View(State, d)) \div DIR_ITEM_SIZE} :
                /\ r.err = "ENAMETOOLONG" <=> Len(to_string_lossy(n)) > MAX_NAME_LEN
                /\ r.err = "ENAMETOOLONG" =>
                       /\ length(View(r.st, d)) = length(View(State, d))
                       /\ Entries(r.st, d) = Entries(State, d)
                /\ r.err = "OK" =>
                       /\ length(View(r.st, d)) = length(View(State, d)) + DIR_ITEM_SIZE
                       /\ \A j \in 1 .. cnt :
                              DirItem(r.st, View(r.st, d), j) = DirItem(State, View(State, d), j)
                       /\ DirItem(r.st, View(r.st, d), cnt + 1)
                              = [idx |-> cnt + 1, ino |-> 2, name |-> n]

\* the names looked up: names requests give, names directories hold
LookupNames == EncNames \cup {REPLACEMENT, DOT, DOTDOT}

\* the entries of directory d named n
Named(st, d, n) == {e \in Entries(st, d) : e.name = n}

\* C24: lookup_item(parent, name) returns the index and the inode id of the
\* first entry, in index order, whose decoded name is name; it returns ENOENT
\* exactly when no entry has that name; it changes nothing.
C24_LookupFirstMatch ==
    (~panic /\ FreeAddrs(State) # {}) =>
        \A d \in ReachDirs(State) : \A n \in LookupNames :
            \E r0 \in {read_inode(State, d)} :
            \E r \in {lookup_item(r0.st, r0.val, n)} :
            \E es \in {Named(State, d, n)} :
                /\ r.st = r0.st
                /\ r.err \in {"OK", "ENOENT"}
                /\ r.err = "ENOENT" <=> es = {}
                /\ r.err = "OK" =>
                       \E e \in es :
                           /\ \A f \in es : e.idx <= f.idx
                           /\ r.val = [offset |-> e.idx - 1, ino |-> e.ino]

\* a directory holds two entries of one name for different inodes
C24_Witness ==
    /\ ~panic /\ FreeAddrs(State) # {}
    /\ \E d \in ReachDirs(State) : \E e \in Named(State, d, REPLACEMENT) :
       \E f \in Named(State, d, REPLACEMENT) : e.idx < f.idx /\ e.ino # f.ino

\* ------------------------------------------------------------------------
\* Ownership of blocks
\* ------------------------------------------------------------------------
\* the inodes in use: named from the root, or held through an open handle
LiveIds(st) == ReachIds(st) \cup {i \in 1 .. NBITS : Handles(st, i) > 0}

\* the positions of an inode's table that hold a block: slot indices, and -1
\* for the indirect block
UsedSlots(ino) ==
    {i \in 0 .. DIRECT_BLK_CNT + INDIRECT_BLK_CNT - 1 : data_block(ino, i) # 0}
        \cup (IF indirect_id(ino) # 0 THEN {-1} ELSE {})

\* C25: after every completed request no block has two owners: a block id is
\* in at most one table position over all the inodes in use (named from the
\* root or held open), and no table position holds the id of an inode in use.
C25_NoSharedBlocks ==
    \E live \in {LiveIds(State)} :
        \A i \in live : \E ino \in {View(State, i)} :
            /\ Cardinality(TableBlocks(ino)) = Cardinality(UsedSlots(ino))
            /\ TableBlocks(ino) \cap live = {}
            /\ \A j \in live \ {i} : TableBlocks(ino) \cap TableBlocks(View(State, j)) = {}

\* C26: every read_block and write_block that a request makes targets a block
\* whose bitmap bit is set, so no request fails the allocated-bit assertion,
\* a request on a handle opened before its file was unlinked included.
\* Stated on the write requests: a write within one direct block makes no
\* other assertion, so a write that panics has failed this one.
C26_BlockAssertionsHold ==
    [][last'.op = "write" => ~panic']_vars

\* ------------------------------------------------------------------------
\* The bitmap block and the superblock on the device
\* ------------------------------------------------------------------------
\* C28: after init and after every completed new_block and del_block the
\* bitmap block on the device (device block 1) equals the in-memory bitmap.
C28_BitmapWrittenThrough ==
    (last.op \in {"init", "new_block", "del_block"} /\ ~panic) =>
        BlockIORead(State, 1) = bitmap_block

\* a del_block has left a bitmap with blocks allocated above the freed one
C28_Witness ==
    /\ last.op = "del_block" /\ last.err = "OK"
    /\ ~BitSet(bitmap_block, last.id - 1)
    /\ \E j \in 0 .. NBITS - 1 : j > last.id - 1 /\ BitSet(bitmap_block, j)
    /\ blocks[2] = bitmap_block

\* the superblock is in place, and read_block and write_block of any allocated
\* id leave device blocks 0 and 1 as they are (read_block changes nothing)
SuperblockFramed(st) ==
    /\ is_formatted(st)
    /\ BlockIORead(st, 0) = SuperBlock
    /\ \A id \in 1 .. NBITS :
          BitSet(st.bitmap_block, id - 1) =>
              \E w \in {write_block(st, id, MkData(BLOCK_SIZE, 1))} :
              \E r \in {read_block(st, id)} :
                  /\ BlockIORead(w.st, 0) = BlockIORead(st, 0)
                  /\ BlockIORead(w.st, 1) = BlockIORead(st, 1)
                  /\ r.st = st

\* C29: the superblock is written by format only.  A device never written is
\* not formatted; after init with need_format it is; from then on device
\* block 0 holds the superblock whatever operation runs, and read_block and
\* write_block never touch device blocks 0 and 1.
C29_SuperblockOnlyFormatted ==
    [][/\ ~is_formatted(FreshState)
       /\ SuperblockFramed(State)
       /\ SuperblockFramed(State')]_vars

\* a write_file has allocated and written blocks
C29_Witness ==
    /\ last.op = "write_file" /\ last.err = "OK" /\ Len(last.data) > BLOCK_SIZE
    /\ is_formatted(State)
    /\ Cardinality({k \in 0 .. NBITS - 1 : BitSet(bitmap_block, k)}) >= 3

\* ------------------------------------------------------------------------
\* Renames that fail
\* ------------------------------------------------------------------------
\* a name one cell longer than MAX_NAME_LEN
LongName == <<97, 98, 99>>

\* the new names of the renames tried: the ones Spec sends and the long one
TriedTargets(st, src, newparent) ==
    RenameTargets(st, src, newparent)
        \cup (IF IsDir(st, src) /\ newparent \in DirsFrom(st, {}, {src}) THEN {} ELSE {LongName})

\* C30: a rename that returns an error leaves the namespace as it was: the
\* entry (parent, name) still exists and names the same inode, and every name
\* the destination directory had is still there.
C30_FailedRenameKeepsNames ==
    (~panic /\ Cardinality(FreeAddrs(State)) >= 3) =>
        \A p \in ReachDirs(State) : \A e \in Children(State, p) : \A q \in ReachDirs(State) :
        \A m \in TriedTargets(State, e.ino, q) :
            \E r \in {rename(State, USER_REQ, p, e.name, q, m)} :
                r.err \notin {"OK", "PANIC"} =>
                    /\ e.name \in EntryNames(r.st, p)
                    /\ EntryIno(r.st, p, e.name) = EntryIno(State, p, e.name)
                    /\ EntryNames(State, q) \subseteq EntryNames(r.st, q)

\* ------------------------------------------------------------------------
\* Mounting again
\* ------------------------------------------------------------------------
\* a new process over the device as st left it: Rfs::new, then the init
\* callback
Remount(st) == init_impl([FreshState EXCEPT !.blocks = st.blocks], INIT_REQ)

\* no Inode is held: every handle has been released
Quiescent(st) == ~st.panic /\ \A a \in 1 .. HEAP_SIZE : ~Alive(st, a)

\* the metadata of an inode that a mount is to keep
Identity(ino) == <<mode(ino), uid(ino), gid(ino), nlink(ino), length(ino)>>

\* C31: init on a device that is already formatted leaves the root directory's
\* entries and length, the root inode's mode, uid, gid and nlink, and the
\* bitmap as the session before left them.
C31_RemountKeepsRoot ==
    Quiescent(State) =>
        \E r \in {Remount(State)} :
            /\ r.err = "OK"
            /\ Entries(r.st, 1) = Entries(State, 1)
            /\ Identity(View(r.st, 1)) = Identity(View(State, 1))
            /\ r.st.bitmap_block = bitmap_block

\* ------------------------------------------------------------------------
\* Creations that fail
\* ------------------------------------------------------------------------
\* the creations tried in directory p under name n: mkdir, symlink, create,
\* and create with a mode that denies its own O_RDWR
Creations(st, p, n) ==
    {mkdir(st, USER_REQ, p, n, DIR_MODE),
     symlink(st, USER_REQ, p, n, <<47, 97>>),
     create(st, USER_REQ, p, n, FILE_MODE, O_RDWR),
     create(st, USER_REQ, p, n, 0, O_RDWR)}

\* C32: a create, mkdir or symlink that returns an error leaves the bitmap and
\* the entries of the parent directory as they were before the call.
C32_FailedCreationLeavesNoTrace ==
    (~panic /\ Cardinality(FreeAddrs(State)) >= 3) =>
        \A p \in ReachDirs(State) : \A n \in (Names \ EntryNames(State, p)) \cup {LongName} :
        \A r \in Creations(State, p, n) :
            r.err \notin {"OK", "PANIC"} =>
                /\ r.st.bitmap_block = bitmap_block
                /\ Entries(r.st, p) = Entries(State, p)

\* ------------------------------------------------------------------------
\* truncate_file and the block table
\* ------------------------------------------------------------------------
\* the indices of an inode's block table
SlotIds == 0 .. DIRECT_BLK_CNT + INDIRECT_BLK_CNT - 1

\* a truncate_file step that returned Ok to a length below the old one
ShrinkStep ==
    /\ last'.op = "truncate_file" /\ last'.err = "OK"
    /\ last'.off < length(heap[last'.id2])

\* C33: when truncate_file shrinks a file to length L, every slot of index at
\* least ceil(L / BLOCK_SIZE) that held a block is set to 0 and the bit of its
\* block is cleared, every slot below keeps its value, and if L is not a
\* multiple of BLOCK_SIZE the last retained block is zero on the device from
\* L mod BLOCK_SIZE on.
C33_ShrinkStep ==
    ShrinkStep =>
        \E old \in {heap[last'.id2]} : \E new \in {heap'[last'.id2]} : \E L \in {last'.off} :
            /\ \A i \in SlotIds :
                  IF i >= BlockCnt(L)
                  THEN /\ data_block(new, i) = 0
                       /\ data_block(old, i) # 0 => ~BitSet(bitmap_block', data_block(old, i) - 1)
                  ELSE data_block(new, i) = data_block(old, i)
            /\ ((L % BLOCK_SIZE) # 0 /\ data_block(new, L \div BLOCK_SIZE) # 0) =>
                  \A k \in (L % BLOCK_SIZE) + 1 .. BLOCK_SIZE :
                      blocks'[data_block(new, L \div BLOCK_SIZE) + 2][k] = 0

C33_ShrinkFreesSlots == [][C33_ShrinkStep]_vars

\* a truncate_file step that shrank a file to a multiple L of BLOCK_SIZE
\* while slot L / BLOCK_SIZE, within the old length, held a block
AlignedShrinkStep ==
    /\ ShrinkStep
    /\ (last'.off % BLOCK_SIZE) = 0
    /\ last'.off \div BLOCK_SIZE < BlockCnt(length(heap[last'.id2]))
    /\ data_block(heap[last'.id2], last'.off \div BLOCK_SIZE) # 0

\* C34, as the code has it: when truncate_file shrinks a file to an exact
\* multiple L of BLOCK_SIZE, the first index freed is ceil(L / BLOCK_SIZE) =
\* L / BLOCK_SIZE: the block of the slot right past the retained data is freed
\* (slot set to 0, bitmap bit cleared), and no slot past the data stays live.
C34_AlignedShrinkFreesNextSlot ==
    [][AlignedShrinkStep =>
          \E i \in {last'.off \div BLOCK_SIZE} :
              /\ data_block(heap'[last'.id2], i) = 0
              /\ ~BitSet(bitmap_block', data_block(heap[last'.id2], i) - 1)]_vars

\* C34 as stated: the same shrink leaves the block of slot L / BLOCK_SIZE in
\* its slot and allocated
C34_AlignedShrinkKeepsNextSlot ==
    [][AlignedShrinkStep =>
          \E i \in {last'.off \div BLOCK_SIZE} :
              /\ data_block(heap'[last'.id2], i) = data_block(heap[last'.id2], i)
              /\ BitSet(bitmap_block', data_block(heap[last'.id2], i) - 1)]_vars

\* a file of two blocks was cut to exactly one
C34_Witness ==
    /\ last.op = "truncate_file" /\ last.err = "OK" /\ last.off = BLOCK_SIZE
    /\ data_block(heap[last.id2], 0) # 0
    /\ data_block(heap[last.id2], 1) = 0
    /\ Cardinality({k \in 0 .. NBITS - 1 : BitSet(bitmap_block, k)}) = 2

\* C35: blocks are materialised lazily.  A write_file that returns Ok changes a
\* slot only from 0 and only where at least one byte of the data falls into
\* the slot's range, and a write of zero bytes leaves the bitmap as it was;
\* a truncate_file that does not shrink leaves the bitmap and every slot as
\* they were.
C35_LazyStep ==
    /\ (last'.op = "write_file" /\ last'.err = "OK") =>
          \E old \in {heap[last'.id2]} : \E new \in {heap'[last'.id2]} :
          \E lo \in {last'.off} : \E hi \in {last'.off + Len(last'.data)} :
              /\ \A i \in SlotIds :
                    data_block(new, i) # data_block(old, i) =>
                        /\ data_block(old, i) = 0
                        /\ lo < hi /\ i * BLOCK_SIZE < hi /\ lo < (i + 1) * BLOCK_SIZE
              /\ lo = hi => bitmap_block' = bitmap_block
    /\ (last'.op = "truncate_file" /\ last'.err = "OK" /\ last'.off >= length(heap[last'.id2])) =>
          /\ bitmap_block' = bitmap_block
          /\ \A i \in SlotIds :
                data_block(heap'[last'.id2], i) = data_block(heap[last'.id2], i)

C35_LazyAllocation == [][C35_LazyStep]_vars

\* ------------------------------------------------------------------------
\* a file written and then truncated to nothing
\* ------------------------------------------------------------------------
\* the longest run of write_file calls tried on one inode
MaxWrites == 2

WriteCalls == WriteOffsets \X WriteLens

WriteSeqs == UNION {[1 .. n -> WriteCalls] : n \in 1 .. MaxWrites}

\* an inode that owns no block but its own
Blockless(ino) ==
    /\ length(ino) = 0
    /\ indirect_id(ino) = 0
    /\ \A i \in SlotIds : data_block(ino, i) = 0

\* the calls of ws made one after another on the inode at a, stopping at the
\* first that fails
RECURSIVE WriteAll(_, _, _, _)
WriteAll(st, a, ws, k) ==
    IF k > Len(ws) THEN Ok(st, 0)
    ELSE Try(write_file(st, a, ws[k][1], MkData(ws[k][2], k)), LAMBDA r :
             WriteAll(r.st, a, ws, k + 1))

\* C36: whatever write_file calls are made on an inode that owns no data block
\* (zero-byte writes, writes that leave holes and writes that reach slots
\* beyond the direct table included), a truncate_file(inode, 0) after them
\* returns the bitmap to its value before the first write.
C36_TruncateZeroRestoresBitmap ==
    \A a \in 1 .. HEAP_SIZE : (~panic /\ Alive(State, a) /\ Blockless(heap[a])) =>
        \A ws \in WriteSeqs :
            \E r \in {WriteAll(State, a, ws, 1)} :
                r.err = "OK" =>
                    \E t \in {truncate_file(r.st, a, 0)} :
                        t.err = "OK" => t.st.bitmap_block = bitmap_block

\* ------------------------------------------------------------------------
\* What a new FileMgr finds on the device
\* ------------------------------------------------------------------------
\* every in-memory object discarded and a new FileMgr opened over the device:
\* FileMgr::new, then init(need_format = false)
Reopen(st) == FileMgrInit([FreshState EXCEPT !.blocks = st.blocks], FALSE)

\* what read_inode and then read_file of the whole length return for inode id
Contents(st, id) ==
    Try(read_inode(st, id), LAMBDA r :
        Bind(read_file(r.st, r.val, 0, length(r.st.heap[r.val])), LAMBDA f :
            [st |-> st, err |-> f.err, val |-> <<r.st.heap[r.val].data, r.st.heap[r.val].indirect, f.val>>]))

\* the new FileMgr shows the bitmap, and for every allocated inode the inode
\* block, the indirect table and the bytes, that st showed
Durable(st) ==
    \E r \in {Reopen(st)} :
        /\ r.err = "OK"
        /\ r.st.bitmap_block = st.bitmap_block
        /\ \A id \in inodes :
              \E old \in {Contents(st, id)} : \E new \in {Contents(r.st, id)} :
                  /\ new.err = old.err
                  /\ new.val = old.val

\* no setter is waiting for its flush: every held Inode is clean
Flushed(st) == \A a \in 1 .. HEAP_SIZE : Alive(st, a) => ~st.heap[a].dirty

\* C37: after any sequence of completed operations a new FileMgr opened with
\* init(need_format = false) over the same device finds the same bitmap and,
\* for every allocated inode, the same metadata, block table and read_file
\* contents as were seen in memory: no completed operation leaves state that
\* exists only in memory.  (An Inode object must be free for the probe to
\* read an inode that is not held.)
C37_DurableAtQuiescence ==
    (~panic /\ Flushed(State) /\ FreeAddrs(State) # {}) => Durable(State)

\* ------------------------------------------------------------------------
\* nlink under link and unlink
\* ------------------------------------------------------------------------
\* the number of entries of directory id
EntryCount(st, id) == length(View(st, id)) \div DIR_ITEM_SIZE

\* a new inode starts with nlink = 1
BornWithOneLink ==
    /\ (last'.op \in {"mkdir", "symlink"} /\ last'.err = "OK") =>
          nlink(View(State', last'.val)) = 1
    /\ (last'.op = "create" /\ last'.err = "OK") =>
          nlink(View(State', last'.val)) = 1

\* link adds one to nlink and one entry to newparent
LinkCountsUp ==
    (last'.op = "link" /\ last'.err = "OK") =>
        /\ nlink(View(State', last'.id2)) = nlink(View(State, last'.id2)) + 1
        /\ EntryCount(State', last'.id) = EntryCount(State, last'.id) + 1
        /\ EntryIno(State', last'.id, last'.name) = last'.id2

\* unlink removes one entry; the inode block is freed if and only if nlink
\* was 1, and the inode that survives has one link less
UnlinkCountsDown ==
    (last'.op = "unlink" /\ last'.err = "OK") =>
        \E n \in {nlink(View(State, last'.id2))} :
            /\ EntryCount(State', last'.id) = EntryCount(State, last'.id) - 1
            /\ BitSet(bitmap_block, last'.id2 - 1)
            /\ BitSet(bitmap_block', last'.id2 - 1) <=> (n - 1 # 0)
            /\ n - 1 # 0 => nlink(View(State', last'.id2)) = n - 1

\* the nlink an inode shows after every successful unlink is one less
UnlinkStoresDecrement ==
    (last'.op = "unlink" /\ last'.err = "OK") =>
        nlink(View(State', last'.id2)) = nlink(View(State, last'.id2)) - 1

\* C38: link and unlink drive nlink as a counter.  A new inode starts with
\* nlink = 1; a successful link adds exactly 1 to nlink and one entry; a
\* successful unlink removes one entry, frees the inode block if and only if
\* nlink - 1 is zero, and otherwise leaves the inode with nlink one less: an
\* inode with k links survives k - 1 unlinks and is freed by the k-th.
C38_NlinkStep == BornWithOneLink /\ LinkCountsUp /\ UnlinkCountsDown

RawItem(st, id, j) ==
    [k \in 1 .. DIR_ITEM_SIZE |-> RawByte(st, View(st, id), j * DIR_ITEM_SIZE + k)]

\* how many of the first n entries of directory id are the bytes item
ItemCount(st, id, n, item) == Cardinality({j \in 0 .. n - 1 : RawItem(st, id, j) = item})

\* erase_dir_item(parent, k) on the Inode that read_inode gives for directory id
EraseAt(st, id, k) ==
    Try(read_inode(st, id), LAMBDA r : erase_dir_item(r.st, r.val, k))

\* C39: erase_dir_item(parent, k) removes exactly entry k: the directory is one
\* entry (DIR_ITEM_SIZE bytes) shorter, its entries are the old ones less one
\* occurrence of entry k, every entry at an index other than k and the old last
\* index is unchanged in place, and if k was not the last index slot k holds the
\* old last entry.
C39_EraseRemovesEntry ==
    (~panic /\ FreeAddrs(State) # {}) =>
        \A id \in ReachDirs(State) : \A k \in 0 .. EntryCount(State, id) - 1 :
            \E n \in {EntryCount(State, id)} : \E r \in {EraseAt(State, id, k)} :
                /\ r.err = "OK"
                /\ length(View(r.st, id)) = length(View(State, id)) - DIR_ITEM_SIZE
                /\ \A j \in 0 .. n - 2 : j # k => RawItem(r.st, id, j) = RawItem(State, id, j)
                /\ k < n - 1 => RawItem(r.st, id, k) = RawItem(State, id, n - 1)
                /\ \A j \in 0 .. n - 1 : \E item \in {RawItem(State, id, j)} :
                      ItemCount(r.st, id, n - 1, item) =
                          ItemCount(State, id, n, item)
                              - (IF item = RawItem(State, id, k) THEN 1 ELSE 0)

\* C39 witness: two names were created in the root, "a" and then "b" (whose
\* inode block was therefore allocated after that of "a"), and "a" was unlinked; the
\* entry of "b", written last, now stands in the slot of "a".
C39_Witness ==
    /\ last.op = "unlink" /\ last.err = "OK" /\ last.id = 1 /\ last.name = <<97>>
    /\ ops = 3
    /\ EntryCount(State, 1) = 3
    /\ \E e \in {DirItem(State, View(State, 1), 3)} : e.name = <<98>> /\ e.ino >= 4

\* ------------------------------------------------------------------------
\* flush and the dirty flag
\* ------------------------------------------------------------------------
\* the calls of every setter on the Inode at a, as the states they leave
SetterResults(st, a) ==
    UNION {{set_length(st, a, v), set_mode(st, a, v), set_nlink(st, a, v), set_uid(st, a, v),
            set_gid(st, a, v), set_atime(st, a, v), set_mtime(st, a, v), set_ctime(st, a, v)}
           : v \in {0, 1, 2}}
    \cup {set_data_block(st, a, i, b).st :
            i \in {0, DIRECT_BLK_CNT, DIRECT_BLK_CNT + INDIRECT_BLK_CNT}, b \in {0, NBITS}}

\* C40: flush is idempotent.  On a clean inode it writes no block; on a dirty
\* inode it writes the mirror to the inode's own block and clears the dirty
\* flag, so that a second flush writes nothing; and every setter raises the
\* dirty flag.
C40_FlushIdempotent ==
    ~panic => \A a \in 1 .. HEAP_SIZE : Alive(State, a) =>
        \E r \in {InodeFlush(State, a)} :
            /\ r.err = "OK"
            /\ ~heap[a].dirty => r.st = State
            /\ heap[a].dirty =>
                  /\ r.st.blocks[heap[a].id + 2] = heap[a].data
                  /\ ~r.st.heap[a].dirty
                  /\ r.st.heap[a].data = heap[a].data
            /\ InodeFlush(r.st, a).st = r.st
            /\ \A s \in SetterResults(State, a) \cup SetterResults(r.st, a) : s.heap[a].dirty

\* C40 witness: set_uid and then flush were called on the root inode; the uid
\* is on the device and the Inode is clean.
C40_Witness ==
    /\ last.op = "flush" /\ last.err = "OK"
    /\ ops = 2
    /\ ~heap[last.id2].dirty
    /\ uid(DiskInode(State, last.id)) \in Uids
====
